---------------------------- MODULE Spec2Model ----------------------------
(***************************************************************************)
(* Model of the table-schema core of Nice-Toolkits-Collection:             *)
(*   src/database/structure.py      MagiTable, MagiTableColumn, MagiDDL    *)
(*   src/database/ddl_construct.py  DDLConstruct                           *)
(*   src/data_constuct.py           TestDataGenerator                      *)
(*                                                                         *)
(* Text is a sequence of atoms.  An atom is a string: one character of     *)
(* user data (a comment, a generated literal) or one fragment that the     *)
(* code writes as a whole (a keyword, an identifier, a default literal).   *)
(* An optional value (Python's "x or None") is a record [has, val].        *)
(***************************************************************************)
EXTENDS Integers, Sequences, FiniteSets, TLC

VARIABLES
    source,          \* the TableConstruct a table is built from, and its factory run
    table,           \* the MagiTable handed to the generators
    length_ratio,    \* TestDataGenerator.length_ratio
    text_fill_mode,  \* TestDataGenerator.text_fill_mode
    data_frame,      \* TestDataGenerator.data_frame
    files,           \* the CSV files on disk, by path
    result,          \* what the last call returned or raised
    search,          \* the arguments of a balanced search and what it returned
    processor        \* the BusinessProcessor and its start_processing flows

vars ==
    <<source, table, length_ratio, text_fill_mode, data_frame, files, result, search,
      processor>>

-----------------------------------------------------------------------------
(* Bounds of the model *)

MaxLength == 4       \* declared column lengths range over -1..MaxLength
MaxCommentLen == 2   \* comments are texts of at most this many characters
MaxCols == 2         \* columns per table
MaxRows == 2         \* rows_count of the INSERT builders ranges over 0..MaxRows
MaxSourceRows == 3   \* column rows a source hands to the factory
MaxTextLen == 5      \* the texts searched have at most this many characters
MaxFlows == 2        \* start_processing coroutines in flight at once
TotalTasks == 2      \* BusinessProcessor.total_tasks (10 in the source)

-----------------------------------------------------------------------------
(* Optional values *)

\* An "int or None": float tells a float64 read back from pandas (v.0, or NaN
\* when has is FALSE) from a Python int (or None when has is FALSE).
NoneInt == [has |-> FALSE, val |-> 0, float |-> FALSE]
SomeInt(v) == [has |-> TRUE, val |-> v, float |-> FALSE]
SomeFloat(v) == [has |-> TRUE, val |-> v, float |-> TRUE]
NaN == [has |-> FALSE, val |-> 0, float |-> TRUE]
NoneStr == [has |-> FALSE, val |-> <<>>]
SomeStr(s) == [has |-> TRUE, val |-> s]

\* Python truthiness of "int or None" and of "str or None"
TruthyInt(x) == IF x.has THEN x.val # 0 ELSE x.float
TruthyStr(x) == x.has /\ x.val # <<>>

Max(a, b) == IF a >= b THEN a ELSE b

Repeat(c, n) == [i \in 1..n |-> c]

\* str.replace(ch, "") for a one-character ch
RemoveChar(s, ch) == SelectSeq(s, LAMBDA c : c # ch)

\* s[:n] for n >= 0
Prefix(s, n) == SubSeq(s, 1, IF n <= Len(s) THEN n ELSE Len(s))

RECURSIVE Join(_, _)
\* sep.join(parts), for a separator text and a sequence of texts
Join(sep, parts) ==
    IF parts = <<>> THEN <<>>
    ELSE IF Len(parts) = 1 THEN parts[1]
    ELSE parts[1] \o sep \o Join(sep, Tail(parts))

SQ == "'"
DQ == "\""

-----------------------------------------------------------------------------
(* LengthRatio and TextFillMode *)

\* The enum values 1/3, 1/2 and 1 as fractions.
ONE_THIRD == [num |-> 1, den |-> 3]
HALF == [num |-> 1, den |-> 2]
FULL == [num |-> 1, den |-> 1]
LengthRatio == {ONE_THIRD, HALF, FULL}

ONLY_N == "only_n"
COMMENT_PLUS_N == "comment_n"
TextFillMode == {ONLY_N, COMMENT_PLUS_N}

-----------------------------------------------------------------------------
(* MagiTableColumn *)

MagiTableColumn(name, data_type, length, precision, primary_key, unique, not_null, default, comment, no) ==
    [name |-> name, data_type |-> data_type, length |-> length,
     precision |-> precision, primary_key |-> primary_key, unique |-> unique,
     not_null |-> not_null, default |-> default, comment |-> comment,
     no |-> no]

MagiTableIndex(name, columns, unique) ==
    [name |-> name, columns |-> columns, unique |-> unique]

MagiTable(table_name, table_comment, table_schema, columns, indexes) ==
    [table_name |-> table_name, table_comment |-> table_comment,
     table_schema |-> table_schema, columns |-> columns, indexes |-> indexes]

\* str.upper() on the identifiers of the model
Upper(s) ==
    CASE s = "varchar" -> "VARCHAR"
      [] s = "Char" -> "CHAR"
      [] s = "number" -> "NUMBER"
      [] s = "timestamp" -> "TIMESTAMP"
      [] s = "bool" -> "BOOL"
      [] OTHER -> s

\* str.lower() on the identifiers of the model
Lower(s) ==
    CASE s = "VARCHAR" -> "varchar"
      [] s = "Char" -> "char"
      [] s = "CHAR" -> "char"
      [] s = "VARCHAR2" -> "varchar2"
      [] s = "NCHAR" -> "nchar"
      [] s = "TEXT" -> "text"
      [] s = "INTEGER" -> "integer"
      [] s = "FLOAT" -> "float"
      [] s = "DATE" -> "date"
      [] s = "BOOLEAN" -> "boolean"
      [] s = "BLOB" -> "blob"
      [] s = "ORACLE" -> "oracle"
      [] s = "Postgres" -> "postgres"
      [] s = "MySQL" -> "mysql"
      [] OTHER -> s

TextTypes == {"VARCHAR", "VARCHAR2", "CHAR", "NVARCHAR", "NCHAR", "TEXT", "CLOB"}
NumberTypes == {"INTEGER", "INT", "NUMBER", "DECIMAL", "NUMERIC", "FLOAT", "DOUBLE"}
DateTypes == {"DATE", "TIMESTAMP", "DATETIME"}
BoolTypes == {"BOOLEAN", "BOOL"}

ORACLE_MAX_DATE == <<"DATE ", SQ, "9999-12-31", SQ>>

-----------------------------------------------------------------------------
(* TestDataGenerator: the value generator *)

\* int(max_length * ratio) truncates the float product.  The product of a
\* length below 2^53 with the double nearest to 1/3 rounds to the exact
\* quotient when the length is a multiple of 3 and stays within the same
\* integer interval otherwise, so the result is the integer quotient.
calculate_actual_length_ceil(max_length, ratio) ==
    IF max_length <= 0 THEN 1
    ELSE Max(1, (max_length * ratio.num + ratio.den - 1) \div ratio.den)

calculate_actual_length(max_length, ratio) ==
    IF max_length <= 0 THEN 1
    ELSE Max(1, (max_length * ratio.num) \div ratio.den)

generate_text_value_keep_dq(column, ratio, mode) ==
    LET max_length == IF TruthyInt(column.length) THEN column.length.val ELSE 1
        actual_length == calculate_actual_length(max_length, ratio)
        comment == IF TruthyStr(column.comment) THEN column.comment.val ELSE <<>>
        clean_comment == RemoveChar(comment, SQ)
        result_text ==
            IF mode = COMMENT_PLUS_N /\ clean_comment # <<>>
            THEN IF Len(clean_comment) >= actual_length
                 THEN Prefix(clean_comment, actual_length)
                 ELSE clean_comment \o Repeat("N", actual_length - Len(clean_comment))
            ELSE Repeat("N", actual_length)
    IN  <<SQ>> \o result_text \o <<SQ>>

generate_text_value_no_truncate(column, ratio, mode) ==
    LET max_length == IF TruthyInt(column.length) THEN column.length.val ELSE 1
        actual_length == calculate_actual_length(max_length, ratio)
        comment == IF TruthyStr(column.comment) THEN column.comment.val ELSE <<>>
        clean_comment == RemoveChar(RemoveChar(comment, SQ), DQ)
        result_text ==
            IF mode = COMMENT_PLUS_N /\ clean_comment # <<>>
            THEN IF Len(clean_comment) >= actual_length
                 THEN clean_comment
                 ELSE clean_comment \o Repeat("N", actual_length - Len(clean_comment))
            ELSE Repeat("N", actual_length)
    IN  <<SQ>> \o result_text \o <<SQ>>

generate_text_value(column, ratio, mode) ==
    LET max_length == IF TruthyInt(column.length) THEN column.length.val ELSE 1
        actual_length == calculate_actual_length(max_length, ratio)
        comment == IF TruthyStr(column.comment) THEN column.comment.val ELSE <<>>
        clean_comment == RemoveChar(RemoveChar(comment, SQ), DQ)
        result_text ==
            IF mode = COMMENT_PLUS_N
            THEN IF clean_comment # <<>>
                 THEN IF Len(clean_comment) >= actual_length
                      THEN Prefix(clean_comment, actual_length)
                      ELSE clean_comment
                               \o Repeat("N", actual_length - Len(clean_comment))
                 ELSE Repeat("N", actual_length)
            ELSE Repeat("N", actual_length)
    IN  <<SQ>> \o result_text \o <<SQ>>

generate_number_value_full(column, ratio) ==
    LET max_length == IF TruthyInt(column.length) THEN column.length.val ELSE 9
    IN  Repeat("9", max_length)

generate_number_value(column, ratio) ==
    LET max_length == IF TruthyInt(column.length) THEN column.length.val ELSE 9
        actual_length == calculate_actual_length(max_length, ratio)
    IN  Repeat("9", actual_length)

generate_default_value_case_sensitive(column, ratio, mode) ==
    LET data_type == column.data_type
    IN  IF data_type \in TextTypes THEN generate_text_value(column, ratio, mode)
        ELSE IF data_type \in NumberTypes THEN generate_number_value(column, ratio)
        ELSE IF data_type \in DateTypes THEN ORACLE_MAX_DATE
        ELSE IF data_type \in BoolTypes THEN <<"TRUE">>
        ELSE <<"NULL">>

generate_default_value(column, ratio, mode) ==
    LET data_type == Upper(column.data_type)
    IN  IF data_type \in TextTypes THEN generate_text_value(column, ratio, mode)
        ELSE IF data_type \in NumberTypes THEN generate_number_value(column, ratio)
        ELSE IF data_type \in DateTypes THEN ORACLE_MAX_DATE
        ELSE IF data_type \in BoolTypes THEN <<"TRUE">>
        ELSE <<"NULL">>

-----------------------------------------------------------------------------
(* MagiDDL and DDLConstruct *)

SUPPORTED_DATABASES == {"oracle", "postgres"}

\* MagiDDL.__init__: the fields get_ddl_string reads
MagiDDL == [schema_name |-> NoneStr, temporary |-> FALSE, if_not_exists |-> FALSE]

\* A MagiTable instance is always truthy, so the empty-string return of
\* get_ddl_string is never taken once ddl.table is set.
get_ddl_string(ddl, magi_table) ==
    LET table_name ==
            IF TruthyStr(ddl.schema_name)
            THEN ddl.schema_name.val \o <<".">> \o <<magi_table.table_name>>
            ELSE <<magi_table.table_name>>
        ddl_parts ==
            <<<<"CREATE">>>>
            \o (IF ddl.temporary THEN <<<<"TEMPORARY">>>> ELSE <<>>)
            \o <<<<"TABLE">>>>
            \o (IF ddl.if_not_exists THEN <<<<"IF NOT EXISTS">>>> ELSE <<>>)
            \o <<table_name>>
    IN  Join(<<" ">>, ddl_parts)

\* f"{column.length}": an int as its digits, a float as v.0, NaN as nan
FormatNumber(x) ==
    IF ~x.float THEN <<ToString(x.val)>>
    ELSE IF x.has THEN <<ToString(x.val), ".0">>
    ELSE <<"nan">>

_build_column_definition_not_null_first(column, database) ==
    LET type_part ==
            IF TruthyInt(column.length) /\ Lower(column.data_type) \in {"varchar", "char"}
            THEN <<column.data_type, "(">> \o FormatNumber(column.length) \o <<")">>
            ELSE <<column.data_type>>
        parts ==
            <<<<column.name>>, type_part>>
            \o (IF column.not_null THEN <<<<"NOT NULL">>>> ELSE <<>>)
            \o (IF column.primary_key THEN <<<<"PRIMARY KEY">>>> ELSE <<>>)
            \o (IF column.default.has
                THEN <<<<"DEFAULT ">> \o column.default.val>> ELSE <<>>)
    IN  Join(<<" ">>, parts)

_build_column_definition(column, database) ==
    LET type_part ==
            IF TruthyInt(column.length) /\ Lower(column.data_type) \in {"varchar", "char"}
            THEN <<column.data_type, "(">> \o FormatNumber(column.length) \o <<")">>
            ELSE <<column.data_type>>
        parts ==
            <<<<column.name>>, type_part>>
            \o (IF column.primary_key THEN <<<<"PRIMARY KEY">>>> ELSE <<>>)
            \o (IF column.not_null THEN <<<<"NOT NULL">>>> ELSE <<>>)
            \o (IF column.default.has
                THEN <<<<"DEFAULT ">> \o column.default.val>> ELSE <<>>)
    IN  Join(<<" ">>, parts)

_build_index_definition_always_unique(table_name, index) ==
    LET index_type == "UNIQUE INDEX"
        columns == Join(<<", ">>, [i \in 1..Len(index.columns) |-> <<index.columns[i]>>])
    IN  <<"CREATE ", index_type, " ", index.name, " ON ", table_name, " (">>
        \o columns \o <<")">>

_build_index_definition(table_name, index) ==
    LET index_type == IF index.unique THEN "UNIQUE INDEX" ELSE "INDEX"
        columns == Join(<<", ">>, [i \in 1..Len(index.columns) |-> <<index.columns[i]>>])
    IN  <<"CREATE ", index_type, " ", index.name, " ON ", table_name, " (">>
        \o columns \o <<")">>

RECURSIVE ColumnComments_every_column(_, _)
ColumnComments_every_column(table_name, columns) ==
    IF columns = <<>> THEN <<>>
    ELSE <<";\n", "COMMENT ON COLUMN ", table_name, ".", columns[1].name, " IS ", SQ>>
         \o (IF columns[1].comment.has THEN columns[1].comment.val ELSE <<"None">>)
         \o <<SQ>>
         \o ColumnComments_every_column(table_name, Tail(columns))

RECURSIVE ColumnComments(_, _)
\* the loop of create_table over the columns' comments
ColumnComments(table_name, columns) ==
    IF columns = <<>> THEN <<>>
    ELSE (IF TruthyStr(columns[1].comment)
          THEN <<";\n", "COMMENT ON COLUMN ", table_name, ".", columns[1].name, " IS ", SQ>>
               \o columns[1].comment.val \o <<SQ>>
          ELSE <<>>)
         \o ColumnComments(table_name, Tail(columns))

\* a create_table that writes the index statements before the comments
DDLText_indexes_first(magi_table, database) ==
    LET ddl == MagiDDL
        cols == magi_table.columns
        columns == [i \in 1..Len(cols) |-> _build_column_definition(cols[i], database)]
        head == get_ddl_string(ddl, magi_table)
                \o <<" (\n    ">> \o Join(<<",\n    ">>, columns) \o <<"\n)">>
        table_comment ==
            IF TruthyStr(magi_table.table_comment)
            THEN <<"\n", "COMMENT ON TABLE ", magi_table.table_name, " IS ", SQ>>
                 \o magi_table.table_comment.val \o <<SQ>>
            ELSE <<>>
        idx == magi_table.indexes
        index_statements ==
            [i \in 1..Len(idx) |-> _build_index_definition(magi_table.table_name, idx[i])]
        indexes ==
            IF idx # <<>> THEN <<";\n">> \o Join(<<";\n">>, index_statements) ELSE <<>>
    IN  head \o indexes \o table_comment \o ColumnComments(magi_table.table_name, cols)

\* The text create_table builds once the dialect is accepted
DDLText(magi_table, database) ==
    LET ddl == MagiDDL
        cols == magi_table.columns
        columns == [i \in 1..Len(cols) |-> _build_column_definition(cols[i], database)]
        head == get_ddl_string(ddl, magi_table)
                \o <<" (\n    ">> \o Join(<<",\n    ">>, columns) \o <<"\n)">>
        table_comment ==
            IF TruthyStr(magi_table.table_comment)
            THEN <<"\n", "COMMENT ON TABLE ", magi_table.table_name, " IS ", SQ>>
                 \o magi_table.table_comment.val \o <<SQ>>
            ELSE <<>>
        idx == magi_table.indexes
        index_statements ==
            [i \in 1..Len(idx) |-> _build_index_definition(magi_table.table_name, idx[i])]
        indexes ==
            IF idx # <<>> THEN <<";\n">> \o Join(<<";\n">>, index_statements) ELSE <<>>
    IN  head \o table_comment \o ColumnComments(magi_table.table_name, cols) \o indexes

\* An outcome of a call: what it raised ("" when it returned) and what it returned
Raised(error) == [raised |-> error, returned |-> FALSE, text |-> <<>>, stmts |-> <<>>]
Returned(text) == [raised |-> "", returned |-> TRUE, text |-> text, stmts |-> <<>>]
ReturnedList(stmts) == [raised |-> "", returned |-> TRUE, text |-> <<>>, stmts |-> stmts]

create_table_no_check(magi_table, database) ==
    Returned(DDLText(magi_table, database))

create_table(magi_table, database) ==
    IF Lower(database) \notin SUPPORTED_DATABASES
    THEN Raised("ValueError")
    ELSE Returned(DDLText(magi_table, database))

-----------------------------------------------------------------------------
(* The tabular representation (a pandas DataFrame) *)

\* A frame: whether it exists (None otherwise), its column labels, and its
\* rows (a frame of column definitions) or its statements (an export frame).
NoFrame == [exists |-> FALSE, labels |-> "", rows |-> <<>>, stmts |-> <<>>]
DefineFrame(rows) == [exists |-> TRUE, labels |-> "define", rows |-> rows, stmts |-> <<>>]
ExportFrame(label, stmts) == [exists |-> TRUE, labels |-> label, rows |-> <<>>, stmts |-> stmts]

\* A cell holding text: kind "str" for a Python str, and "int", "bool" or
\* "nan" for what pandas.read_csv makes of a column it could convert.
StrCell(text) == [kind |-> "str", text |-> text]

\* pandas.DataFrame on a list of "int or None": all ints stay int64, a list
\* that mixes ints and None becomes float64 with NaN for None, and a list of
\* None alone stays an object column of None.
IntColumnDtype(values) ==
    IF \E i \in 1..Len(values) : values[i].float THEN "float64"
    ELSE IF \A i \in 1..Len(values) : values[i].has THEN "int64"
    ELSE IF \E i \in 1..Len(values) : values[i].has THEN "float64"
    ELSE "object"

IntCell(x, dtype) == [has |-> x.has, val |-> x.val, dtype |-> dtype]

RECURSIVE InsertByNo(_, _)
\* insertion of one column into a list sorted by (no or 0), after its equals
InsertByNo(column, sorted) ==
    LET key(c) == IF TruthyInt(c.no) THEN c.no.val ELSE 0
    IN  IF sorted = <<>> THEN <<column>>
        ELSE IF key(sorted[1]) <= key(column)
             THEN <<sorted[1]>> \o InsertByNo(column, Tail(sorted))
             ELSE <<column>> \o sorted

RECURSIVE SortedByNo(_)
\* sorted(columns, key=lambda x: x.no or 0): a stable sort
SortedByNo(columns) ==
    IF columns = <<>> THEN <<>>
    ELSE InsertByNo(columns[Len(columns)], SortedByNo(SubSeq(columns, 1, Len(columns) - 1)))

\* the generated_value of one column in generate_dataframe
generated_value_always_default(column, ratio, mode) ==
    IF column.default.has
    THEN column.default.val
    ELSE generate_default_value(column, ratio, mode)

generated_value(column, ratio, mode) ==
    IF TruthyStr(column.default) /\ column.default.val # <<"NULL">>
    THEN column.default.val
    ELSE generate_default_value(column, ratio, mode)

generate_dataframe_unsorted(magi_table, ratio, mode) ==
    LET sorted_columns == magi_table.columns
        lengths == [i \in 1..Len(sorted_columns) |-> sorted_columns[i].length]
        precisions == [i \in 1..Len(sorted_columns) |-> sorted_columns[i].precision]
        Row(column) ==
            [name |-> StrCell(<<column.name>>),
             data_type |-> column.data_type,
             length |-> IntCell(column.length, IntColumnDtype(lengths)),
             precision |-> IntCell(column.precision, IntColumnDtype(precisions)),
             primary_key |-> column.primary_key,
             unique |-> column.unique,
             not_null |-> column.not_null,
             default |-> column.default,
             comment |-> column.comment,
             generated_value |-> StrCell(generated_value(column, ratio, mode))]
    IN  DefineFrame([i \in 1..Len(sorted_columns) |-> Row(sorted_columns[i])])

\* a generate_dataframe that appends its rows to the frame it finds
generate_dataframe_accumulating(magi_table, ratio, mode) ==
    LET sorted_columns == SortedByNo(magi_table.columns)
        lengths == [i \in 1..Len(sorted_columns) |-> sorted_columns[i].length]
        precisions == [i \in 1..Len(sorted_columns) |-> sorted_columns[i].precision]
        Row(column) ==
            [name |-> StrCell(<<column.name>>),
             data_type |-> column.data_type,
             length |-> IntCell(column.length, IntColumnDtype(lengths)),
             precision |-> IntCell(column.precision, IntColumnDtype(precisions)),
             primary_key |-> column.primary_key,
             unique |-> column.unique,
             not_null |-> column.not_null,
             default |-> column.default,
             comment |-> column.comment,
             generated_value |-> StrCell(generated_value(column, ratio, mode))]
        rows == [i \in 1..Len(sorted_columns) |-> Row(sorted_columns[i])]
    IN  IF data_frame.exists /\ Len(data_frame.rows) <= Len(rows)
        THEN DefineFrame(data_frame.rows \o rows)
        ELSE DefineFrame(rows)

generate_dataframe(magi_table, ratio, mode) ==
    LET sorted_columns == SortedByNo(magi_table.columns)
        lengths == [i \in 1..Len(sorted_columns) |-> sorted_columns[i].length]
        precisions == [i \in 1..Len(sorted_columns) |-> sorted_columns[i].precision]
        Row(column) ==
            [name |-> StrCell(<<column.name>>),
             data_type |-> column.data_type,
             length |-> IntCell(column.length, IntColumnDtype(lengths)),
             precision |-> IntCell(column.precision, IntColumnDtype(precisions)),
             primary_key |-> column.primary_key,
             unique |-> column.unique,
             not_null |-> column.not_null,
             default |-> column.default,
             comment |-> column.comment,
             generated_value |-> StrCell(generated_value(column, ratio, mode))]
    IN  DefineFrame([i \in 1..Len(sorted_columns) |-> Row(sorted_columns[i])])

\* What the loop of generate_dataframe raises, "" when it completes: for a
\* character or numeric column whose default does not override, a length
\* that is NaN reaches int(max_length * ratio), which raises ValueError.
generate_dataframe_error(magi_table) ==
    IF \E i \in 1..Len(magi_table.columns) :
            LET column == magi_table.columns[i]
            IN  /\ ~(TruthyStr(column.default) /\ column.default.val # <<"NULL">>)
                /\ Upper(column.data_type) \in TextTypes \cup NumberTypes
                /\ column.length = NaN
    THEN "ValueError"
    ELSE ""

\* a generate_dataframe that stores an empty frame before it fills it
data_frame_cleared_first(frame, magi_table, ratio, mode) ==
    IF generate_dataframe_error(magi_table) # ""
    THEN DefineFrame(<<>>)
    ELSE generate_dataframe(magi_table, ratio, mode)

\* self.data_frame after generate_dataframe: it is assigned after the loop,
\* so a call that raises leaves the frame it found
data_frame_after_generate(frame, magi_table, ratio, mode) ==
    IF generate_dataframe_error(magi_table) # ""
    THEN frame
    ELSE generate_dataframe(magi_table, ratio, mode)

-----------------------------------------------------------------------------
(* TableConstruct: the source of a table and its factory *)

\* pandas.DataFrame(data) on the lists of generate_csv_data: the frame of the
\* source's column rows.  A row list is a list of column descriptions.
ColumnsView(rows) ==
    LET lengths == [i \in 1..Len(rows) |-> rows[i].length]
        precisions == [i \in 1..Len(rows) |-> rows[i].precision]
    IN  [i \in 1..Len(rows) |->
            [name |-> rows[i].name,
             data_type |-> rows[i].data_type,
             length |-> IntCell(rows[i].length, IntColumnDtype(lengths)),
             precision |-> IntCell(rows[i].precision, IntColumnDtype(precisions)),
             primary_key |-> rows[i].primary_key,
             unique |-> rows[i].unique,
             not_null |-> rows[i].not_null,
             default |-> rows[i].default,
             comment |-> rows[i].comment]]

\* row[label] of iterrows for a length or precision cell: a Python int from an
\* int64 column, a float (NaN when missing) from a float64 column, None from
\* an object column of None
RowNumber(cell) ==
    IF cell.dtype = "int64" THEN SomeInt(cell.val)
    ELSE IF cell.dtype = "float64"
         THEN (IF cell.has THEN SomeFloat(cell.val) ELSE NaN)
         ELSE NoneInt

RECURSIVE DictSet(_, _)
\* dictionary[column.name] = column: a new key goes last, an old key keeps its
\* place and gets the new value
DictSet(dictionary, column) ==
    IF dictionary = <<>> THEN <<column>>
    ELSE IF dictionary[1].name = column.name
         THEN <<column>> \o Tail(dictionary)
         ELSE <<dictionary[1]>> \o DictSet(Tail(dictionary), column)

\* the MagiTableColumn the loop makes of the row at position index (from 0)
RowToMagiColumn(row, index) ==
    MagiTableColumn(row.name, row.data_type, RowNumber(row.length),
                    RowNumber(row.precision), row.primary_key, row.unique,
                    row.not_null, row.default, row.comment, SomeInt(index + 1))

RECURSIVE ExtractFrom(_, _, _)
\* the loop of __extract_columns_to_magi_columns from position index on
ExtractFrom(columns_view, index, dictionary) ==
    IF index >= Len(columns_view) THEN dictionary
    ELSE ExtractFrom(columns_view, index + 1,
                     DictSet(dictionary, RowToMagiColumn(columns_view[index + 1], index)))

extract_columns_to_magi_columns(columns_view) ==
    ExtractFrom(columns_view, 0, <<>>)

\* the order in which read_define calls the three reads
ReadDefineOrder_columns_first ==
    <<"read_define_columns", "read_define_schema", "read_define_indexes">>

ReadDefineOrder ==
    <<"read_define_schema", "read_define_columns", "read_define_indexes">>

\* TableConstruct.__init__, with the position of the factory run: pc is
\* "idle" outside a run and "read_define" inside it, calls lists the reads
\* the run has made, object is the table the run has built (none yet)
NoObject == [built |-> FALSE, table_name |-> NoneStr, table_comment |-> NoneStr,
             table_schema |-> NoneStr, columns |-> <<>>, indexes |-> <<>>]

TableConstruct ==
    [table_name |-> NoneStr, table_comment |-> NoneStr, table_schema |-> NoneStr,
     indexes |-> <<>>, columns_view |-> <<>>,
     pc |-> "idle", calls |-> <<>>, object |-> NoObject]

\* lines 93 to 98 of magi_table_factory: the table built from the source
magi_table_factory(src) ==
    [built |-> TRUE,
     table_name |-> src.table_name,
     table_comment |-> src.table_comment,
     table_schema |-> src.table_schema,
     columns |-> extract_columns_to_magi_columns(src.columns_view),
     indexes |-> src.indexes]

-----------------------------------------------------------------------------
(* CSV files: DataFrame.to_csv and pandas.read_csv *)

\* the default na_values of pandas.read_csv among the texts of the model
IsNA(text) == text \in {<<>>, <<"NULL">>, <<"null">>, <<"NaN">>, <<"nan">>, <<"None">>, <<"NA">>}

Digits == {"0", "1", "2", "3", "4", "5", "6", "7", "8", "9"}
IsInt(text) == text # <<>> /\ \A i \in 1..Len(text) : text[i] \in Digits
IsBool(text) == text \in {<<"TRUE">>, <<"True">>, <<"true">>, <<"FALSE">>, <<"False">>, <<"false">>}

\* to_csv writes NaN as the empty field and everything else as its text
CsvField(cell) == IF cell.kind = "nan" THEN <<>> ELSE cell.text

\* read_csv infers one type per column: integers when every field is one
\* (floats when some fields are missing), booleans when every field is one,
\* and otherwise str with NaN for the missing fields.
ReadCsvColumn(fields) ==
    LET idx == 1..Len(fields)
        present == {i \in idx : ~IsNA(fields[i])}
        numeric == present # {} /\ \A i \in present : IsInt(fields[i])
        boolean == present # {} /\ \A i \in present : IsBool(fields[i])
        kind(i) ==
            IF i \notin present THEN "nan"
            ELSE IF numeric THEN (IF present = idx THEN "int" ELSE "float")
            ELSE IF boolean THEN "bool"
            ELSE "str"
    IN  [i \in idx |-> [kind |-> kind(i), text |-> fields[i]]]

OptStrFromCsv(x) == IF x.has /\ ~IsNA(x.val) THEN x ELSE NoneStr

\* the frame read_csv builds from the file written from frame
ReadCsv(frame) ==
    IF frame.labels # "define" THEN frame
    ELSE
        LET rows == frame.rows
            idx == 1..Len(rows)
            names == ReadCsvColumn([i \in idx |-> CsvField(rows[i].name)])
            values == ReadCsvColumn([i \in idx |-> CsvField(rows[i].generated_value)])
            IntDtype(cells) ==
                IF \A i \in idx : cells[i].has THEN "int64" ELSE "float64"
            lengths == [i \in idx |-> rows[i].length]
            precisions == [i \in idx |-> rows[i].precision]
        IN  DefineFrame([i \in idx |->
                [rows[i] EXCEPT
                    !.name = names[i],
                    !.generated_value = values[i],
                    !.length = [@ EXCEPT !.dtype = IntDtype(lengths)],
                    !.precision = [@ EXCEPT !.dtype = IntDtype(precisions)],
                    !.default = OptStrFromCsv(@),
                    !.comment = OptStrFromCsv(@)]])

-----------------------------------------------------------------------------
(* TestDataGenerator: the INSERT builders *)

FullTableName(table_name, schema_name) ==
    IF TruthyStr(schema_name)
    THEN schema_name.val \o <<".">> \o <<table_name>>
    ELSE <<table_name>>

AllStr(cells) == \A i \in 1..Len(cells) : cells[i].kind = "str"
Texts(cells) == [i \in 1..Len(cells) |-> cells[i].text]

\* Both builders read the frame the same way; this is the outcome of those
\* reads alone: "" when they succeed.
FrameReadError(frame) ==
    IF ~frame.exists THEN "ValueError"
    ELSE IF frame.labels # "define" THEN "KeyError"
    ELSE ""

generate_insert_no_precondition(frame, table_name, schema_name, rows_count) ==
    LET full_table_name == FullTableName(table_name, schema_name)
        column_names == [i \in 1..Len(frame.rows) |-> frame.rows[i].name]
        generated_values == [i \in 1..Len(frame.rows) |-> frame.rows[i].generated_value]
        insert_sql ==
            <<"INSERT INTO ">> \o full_table_name \o <<" (">>
            \o Join(<<", ">>, Texts(column_names)) \o <<") VALUES (">>
            \o Join(<<", ">>, Texts(generated_values)) \o <<");">>
    IN  ReturnedList(Repeat(insert_sql, rows_count))

generate_insert_one_statement(frame, table_name, schema_name, rows_count) ==
    LET full_table_name == FullTableName(table_name, schema_name)
        column_names == [i \in 1..Len(frame.rows) |-> frame.rows[i].name]
        generated_values == [i \in 1..Len(frame.rows) |-> frame.rows[i].generated_value]
        insert_sql ==
            <<"INSERT INTO ">> \o full_table_name \o <<" (">>
            \o Join(<<", ">>, Texts(column_names)) \o <<") VALUES (">>
            \o Join(<<", ">>, Texts(generated_values)) \o <<");">>
    IN  IF FrameReadError(frame) # "" THEN Raised(FrameReadError(frame))
        ELSE IF rows_count >= 1 /\ ~(AllStr(column_names) /\ AllStr(generated_values))
        THEN Raised("TypeError")
        ELSE ReturnedList(<<insert_sql>>)

\* generate_insert_from_dataframe up to the optional export
generate_insert_from_dataframe(frame, table_name, schema_name, rows_count) ==
    LET full_table_name == FullTableName(table_name, schema_name)
        column_names == [i \in 1..Len(frame.rows) |-> frame.rows[i].name]
        generated_values == [i \in 1..Len(frame.rows) |-> frame.rows[i].generated_value]
        insert_sql ==
            <<"INSERT INTO ">> \o full_table_name \o <<" (">>
            \o Join(<<", ">>, Texts(column_names)) \o <<") VALUES (">>
            \o Join(<<", ">>, Texts(generated_values)) \o <<");">>
    IN  IF FrameReadError(frame) # "" THEN Raised(FrameReadError(frame))
        ELSE IF rows_count >= 1 /\ ~(AllStr(column_names) /\ AllStr(generated_values))
        THEN Raised("TypeError")
        ELSE ReturnedList(Repeat(insert_sql, IF rows_count >= 0 THEN rows_count ELSE 0))

generate_batch_insert_no_precondition(frame, table_name, schema_name, rows_count) ==
    LET full_table_name == FullTableName(table_name, schema_name)
        column_names == [i \in 1..Len(frame.rows) |-> frame.rows[i].name]
        generated_values == [i \in 1..Len(frame.rows) |-> frame.rows[i].generated_value]
        values_str == Join(<<", ">>, Texts(generated_values))
        values_list == Repeat(<<"(">> \o values_str \o <<")">>, rows_count)
    IN  Returned(<<"INSERT INTO ">> \o full_table_name \o <<" (">>
                 \o Join(<<", ">>, Texts(column_names)) \o <<") \n", "VALUES \n  ">>
                 \o Join(<<",\n  ">>, values_list) \o <<";">>)

generate_batch_insert_one_tuple(frame, table_name, schema_name, rows_count) ==
    LET full_table_name == FullTableName(table_name, schema_name)
        column_names == [i \in 1..Len(frame.rows) |-> frame.rows[i].name]
        generated_values == [i \in 1..Len(frame.rows) |-> frame.rows[i].generated_value]
        values_str == Join(<<", ">>, Texts(generated_values))
    IN  IF FrameReadError(frame) # "" THEN Raised(FrameReadError(frame))
        ELSE IF ~AllStr(column_names) THEN Raised("TypeError")
        ELSE IF rows_count >= 1 /\ ~AllStr(generated_values) THEN Raised("TypeError")
        ELSE Returned(<<"INSERT INTO ">> \o full_table_name \o <<" (">>
                      \o Join(<<", ">>, Texts(column_names)) \o <<") \n", "VALUES \n  ">>
                      \o <<"(">> \o values_str \o <<")">> \o <<";">>)

\* generate_batch_insert_from_dataframe up to the optional export
generate_batch_insert_from_dataframe(frame, table_name, schema_name, rows_count) ==
    LET full_table_name == FullTableName(table_name, schema_name)
        column_names == [i \in 1..Len(frame.rows) |-> frame.rows[i].name]
        generated_values == [i \in 1..Len(frame.rows) |-> frame.rows[i].generated_value]
        values_str == Join(<<", ">>, Texts(generated_values))
        values_list ==
            Repeat(<<"(">> \o values_str \o <<")">>, IF rows_count >= 0 THEN rows_count ELSE 0)
    IN  IF FrameReadError(frame) # "" THEN Raised(FrameReadError(frame))
        ELSE IF ~AllStr(column_names) THEN Raised("TypeError")
        ELSE IF rows_count >= 1 /\ ~AllStr(generated_values) THEN Raised("TypeError")
        ELSE Returned(<<"INSERT INTO ">> \o full_table_name \o <<" (">>
                      \o Join(<<", ">>, Texts(column_names)) \o <<") \n", "VALUES \n  ">>
                      \o Join(<<",\n  ">>, values_list) \o <<";">>)

-----------------------------------------------------------------------------
(* Inputs *)

\* the characters of a comment: a letter and the two quote characters
CommentChars == {"a", SQ, DQ}
CommentTexts == UNION {[1..n -> CommentChars] : n \in 0..MaxCommentLen}
Comments == {NoneStr} \cup {SomeStr(c) : c \in CommentTexts}

Lengths == {NoneInt} \cup {SomeInt(l) : l \in -1..MaxLength}

DataTypes == {"varchar", "Char", "TEXT", "INTEGER", "number",
              "DATE", "timestamp", "BOOLEAN", "bool", "BLOB"}

\* a declared default: absent, the NULL sentinel, the empty string, a literal
Defaults == {NoneStr, SomeStr(<<"NULL">>), SomeStr(<<>>), SomeStr(<<SQ, "A", SQ>>)}

\* the single columns the value generator is applied to
ValueColumns ==
    {MagiTableColumn("c", t, l, NoneInt, FALSE, FALSE, FALSE, d, c, SomeInt(1)) :
        t \in DataTypes, l \in Lengths, d \in Defaults, c \in Comments}

\* the columns the tables of the generators are made of
Catalogue ==
    {MagiTableColumn("id", "INTEGER", SomeInt(3), NoneInt, TRUE, FALSE, TRUE,
                     NoneStr, SomeStr(<<"k">>), SomeInt(1)),
     MagiTableColumn("name", "VARCHAR", SomeInt(4), NoneInt, FALSE, FALSE, TRUE,
                     NoneStr, SomeStr(<<"a", SQ, "b">>), SomeInt(2)),
     MagiTableColumn("status", "Char", SomeInt(1), NoneInt, FALSE, FALSE, TRUE,
                     SomeStr(<<SQ, "A", SQ>>), SomeStr(<<>>), SomeInt(3)),
     MagiTableColumn("note", "TEXT", NoneInt, NoneInt, FALSE, TRUE, FALSE,
                     SomeStr(<<>>), NoneStr, NoneInt)}

\* the column lists of a table: a dict keyed by name, in insertion order
ColumnLists ==
    {cs \in UNION {[1..n -> Catalogue] : n \in 0..MaxCols} :
        \A i, j \in 1..Len(cs) : i # j => cs[i].name # cs[j].name}

IndexLists ==
    {<<>>,
     <<MagiTableIndex("ix_a", <<"id">>, TRUE)>>,
     <<MagiTableIndex("ix_a", <<"id">>, TRUE),
       MagiTableIndex("ix_b", <<"name", "id">>, FALSE)>>}

\* the tables handed to the generator: columns with an ordinal and without,
\* with a comment and without, with a length and without
GeneratorTables ==
    {MagiTable("test_table", NoneStr, SomeStr(<<"test_schema">>), cs, <<>>) :
        cs \in {l \in ColumnLists : \A i \in 1..Len(l) : l[i].name # "status"}}

DDLTables ==
    {MagiTable("test_table", c, s, cs, ix) :
        c \in {NoneStr, SomeStr(<<>>), SomeStr(<<"c">>)},
        s \in {NoneStr, SomeStr(<<"test_schema">>)},
        cs \in ColumnLists, ix \in IndexLists}

\* what the reads of a source may find: a table name that is unset, empty or
\* given; column rows from the catalogue, names repeated or not; indexes
SourceTableNames == {NoneStr, SomeStr(<<>>), SomeStr(<<"MagiOrigin">>)}
SourceComments == {NoneStr, SomeStr(<<"Test Table">>)}
SourceSchemas == {NoneStr, SomeStr(<<"luvmagi">>)}
SourceRows ==
    UNION {[1..n -> {c \in Catalogue : c.name # "status"}] : n \in 0..MaxSourceRows}
SourceIndexes == {<<>>, <<MagiTableIndex("ix_a", <<"id">>, TRUE)>>}

\* the single columns whose clause is rendered
ClauseTypes == {"VARCHAR", "varchar", "Char", "VARCHAR2", "NCHAR", "TEXT",
                "INTEGER", "number", "DATE", "BOOLEAN"}

ClauseColumns ==
    {MagiTableColumn("c", t, l, NoneInt, pk, u, nn, d, NoneStr, SomeInt(1)) :
        t \in ClauseTypes, l \in Lengths, pk \in BOOLEAN, u \in BOOLEAN,
        nn \in BOOLEAN, d \in Defaults}

Databases == {"oracle", "postgres", "ORACLE", "Postgres", "mysql", "MySQL", ""}

Paths == {"out.csv"}
SchemaNames == {NoneStr, SomeStr(<<"test_schema">>)}

\* What a CSV file that exists may hold: the contents of a file are not part
\* of the generator's state, so a read finds a frame saved for this table
\* under some configuration, or an export of INSERT statements.
CsvContents(magi_table) ==
    {generate_dataframe(magi_table, r, m) : r \in LengthRatio, m \in TextFillMode}
    \cup {ExportFrame("insert_statements", <<>>)}

-----------------------------------------------------------------------------
(* State *)

\* The record of the last call: the operation and its arguments, whether the
\* call before it was of the same operation (again), and the outcome.
NoResult ==
    [op |-> "", again |-> FALSE, database |-> "", schema_name |-> NoneStr,
     rows_count |-> 0, max_length |-> 0, path |-> "", raised |-> "",
     returned |-> FALSE, int |-> 0, text |-> <<>>, stmts |-> <<>>, frame |-> NoFrame]

Result(op, outcome) ==
    [NoResult EXCEPT !.op = op, !.again = (result.op = op), !.raised = outcome.raised,
                     !.returned = outcome.returned, !.text = outcome.text,
                     !.stmts = outcome.stmts]

\* files[p]: whether a file exists at path p
NoFiles == [p \in Paths |-> FALSE]

-----------------------------------------------------------------------------
(* text_process: balanced search *)

\* A text is a sequence of characters; positions count from 0 as in Python.
Alphabet == {"(", ")", "!", "a"}

SearchTexts == UNION {[1..n -> Alphabet] : n \in 0..MaxTextLen}

\* the delimiter pairs of the calls: one character each, a left or a right
\* of two characters, the same delimiter on both sides, and an empty left
DelimiterPairs ==
    {<<<<"(">>, <<")">>>>,
     <<<<"(", "!">>, <<")">>>>,
     <<<<"(">>, <<"!", ")">>>>,
     <<<<"!">>, <<"!">>>>,
     <<<<>>, <<")">>>>}

\* text.startswith(sub, j)
StartsWith(text, sub, j) ==
    /\ j + Len(sub) <= Len(text)
    /\ \A k \in 1..Len(sub) : text[j + k] = sub[k]

RECURSIVE FindFrom(_, _, _)
\* text.find(sub, start) for start >= 0: the lowest position from start on
\* where sub begins, -1 when there is none
FindFrom(text, sub, start) ==
    IF start + Len(sub) > Len(text) THEN -1
    ELSE IF StartsWith(text, sub, start) THEN start
    ELSE FindFrom(text, sub, start + 1)

\* what find_balanced returns: None, or the tuple (i_left, i_right, inner)
NoneFound == [found |-> FALSE, i_left |-> 0, i_right |-> 0, inner |-> <<>>]
Found(i, j, inner) == [found |-> TRUE, i_left |-> i, i_right |-> j, inner |-> inner]

\* a scan that takes the first right delimiter, whatever the depth
Scan_first_right(text, left, right, i, j, depth) ==
    LET k == FindFrom(text, right, j)
    IN  IF k < 0 THEN NoneFound
        ELSE Found(i, k, SubSeq(text, i + Len(left) + 1, k))

RECURSIVE Scan(_, _, _, _, _, _)
\* the while loop of find_balanced at position j with the depth so far;
\* the left delimiter is tried before the right one
Scan(text, left, right, i, j, depth) ==
    IF j >= Len(text) THEN NoneFound
    ELSE IF StartsWith(text, left, j)
         THEN Scan(text, left, right, i, j + Len(left), depth + 1)
    ELSE IF StartsWith(text, right, j)
         THEN IF depth - 1 = 0
              THEN Found(i, j, SubSeq(text, i + Len(left) + 1, j))
              ELSE Scan(text, left, right, i, j + Len(right), depth - 1)
    ELSE Scan(text, left, right, i, j + 1, depth)

\* find_balanced for delimiters that are not empty
find_balanced(text, left, right, start) ==
    LET i == FindFrom(text, left, start)
    IN  IF i < 0 THEN NoneFound
        ELSE Scan(text, left, right, i, i, 0)

\* what find_balanced raises: ValueError for an empty delimiter
find_balanced_error(left, right) ==
    IF left = <<>> \/ right = <<>> THEN "ValueError" ELSE ""

RECURSIVE find_all_balanced(_, _, _, _)
\* the loop of find_all_balanced from position pos on
find_all_balanced(text, left, right, pos) ==
    LET found == find_balanced(text, left, right, pos)
    IN  IF ~found.found THEN <<>>
        ELSE <<found>> \o find_all_balanced(text, left, right,
                                            found.i_right + Len(right))

\* the arguments of a search and the outcome of the last call on them
NoSearch ==
    [text |-> <<>>, left |-> <<>>, right |-> <<>>, start |-> 0, op |-> "",
     raised |-> "", found |-> NoneFound, results |-> <<>>]

-----------------------------------------------------------------------------
(* textual_templates: BusinessProcessor *)

\* the start_processing coroutines that can be in flight
Flows == 1..MaxFlows

\* a coroutine that is not running, and one suspended at an await: pc names
\* the await (stage1, task, yield, stage3), i is the loop index, cancelled
\* says that its worker was cancelled and CancelledError awaits it
NoFlow == [pc |-> "none", i |-> 0, cancelled |-> FALSE]
Suspended(pc, i) == [pc |-> pc, i |-> i, cancelled |-> FALSE]

\* BusinessProcessor.__init__, with the flows and the last thing logged
BusinessProcessor ==
    [is_running |-> FALSE, current_task |-> 0, progress |-> 0,
     flows |-> [f \in Flows |-> NoFlow], last |-> <<"", 0>>]

\* the finally block of start_processing, run by flow f after logging note
Finally(p, f, note) ==
    [p EXCEPT !.is_running = FALSE, !.progress = 0, !.flows[f] = NoFlow,
              !.last = <<note, f>>]

\* the top of the task loop for index i, and the code after the loop up to
\* the await of stage 3
LoopTop(p, f, i) ==
    IF ~p.is_running THEN Finally(p, f, "interrupted")
    ELSE IF i < TotalTasks
         THEN [p EXCEPT !.flows[f] = Suspended("task", i), !.last = <<"task", f>>]
         ELSE [p EXCEPT !.flows[f] = Suspended("stage3", i), !.last = <<"stage3", f>>]

\* start_processing from its call to its first await
start_processing(p, f) ==
    IF p.is_running
    THEN [p EXCEPT !.last = <<"already running", f>>]
    ELSE [p EXCEPT !.is_running = TRUE, !.current_task = 0,
                   !.flows[f] = Suspended("stage1", 0), !.last = <<"started", f>>]

\* start_processing from the await flow f is suspended at to the next one,
\* or to its end
resume(p, f) ==
    LET flow == p.flows[f]
    IN  IF flow.cancelled THEN Finally(p, f, "cancelled")
        ELSE IF flow.pc = "stage1"
             THEN IF ~p.is_running THEN Finally(p, f, "interrupted")
                  ELSE LoopTop(p, f, 0)
        ELSE IF flow.pc = "task"
             THEN [p EXCEPT !.current_task = flow.i + 1,
                            !.progress = ((flow.i + 1) * 100) \div TotalTasks,
                            !.flows[f] = Suspended("yield", flow.i),
                            !.last = <<"task completed", f>>]
        ELSE IF flow.pc = "yield"
             THEN LoopTop(p, f, flow.i + 1)
        ELSE IF ~p.is_running THEN Finally(p, f, "interrupted")
        ELSE Finally(p, f, "completed")

stop_processing(p) ==
    IF p.is_running
    THEN [p EXCEPT !.is_running = FALSE, !.last = <<"stop signal", 0>>]
    ELSE [p EXCEPT !.last = <<"not running", 0>>]

-----------------------------------------------------------------------------
(* Initial states *)

\* TestDataGenerator.__init__
InitGenerator ==
    /\ search = NoSearch
    /\ processor = BusinessProcessor
    /\ source = TableConstruct
    /\ length_ratio \in LengthRatio
    /\ text_fill_mode \in TextFillMode
    /\ data_frame = NoFrame
    /\ files = NoFiles
    /\ result = NoResult

Init ==
    /\ table \in GeneratorTables
    /\ InitGenerator

InitValue ==
    /\ table \in {MagiTable("t", NoneStr, NoneStr, <<c>>, <<>>) : c \in ValueColumns}
    /\ InitGenerator

InitDDL ==
    /\ table \in DDLTables
    /\ InitGenerator

InitColumn ==
    /\ table \in {MagiTable("t", NoneStr, NoneStr, <<c>>, <<>>) : c \in ClauseColumns}
    /\ InitGenerator

\* a source just constructed; no table has been handed to a generator yet
NoTable == MagiTable("", NoneStr, NoneStr, <<>>, <<>>)

InitFactory ==
    /\ search = NoSearch
    /\ processor = BusinessProcessor
    /\ table = NoTable
    /\ source = TableConstruct
    /\ length_ratio = FULL
    /\ text_fill_mode = ONLY_N
    /\ data_frame = NoFrame
    /\ files = NoFiles
    /\ result = NoResult

-----------------------------------------------------------------------------
(* Calls of the value generator on one column *)

\* calculate_actual_length on the column's declared length (0 when absent)
CallCalculateActualLength ==
    /\ LET max_length == table.columns[1].length.val
       IN  result' = [Result("calculate_actual_length", Returned(<<>>)) EXCEPT
                         !.max_length = max_length,
                         !.int = calculate_actual_length(max_length, length_ratio)]
    /\ UNCHANGED <<search, processor, source, table, length_ratio, text_fill_mode, data_frame, files>>

CallGenerateTextValue ==
    /\ result' = Result("generate_text_value",
                        Returned(generate_text_value(table.columns[1], length_ratio, text_fill_mode)))
    /\ UNCHANGED <<search, processor, source, table, length_ratio, text_fill_mode, data_frame, files>>

CallGenerateNumberValue ==
    /\ result' = Result("generate_number_value",
                        Returned(generate_number_value(table.columns[1], length_ratio)))
    /\ UNCHANGED <<search, processor, source, table, length_ratio, text_fill_mode, data_frame, files>>

CallGenerateDefaultValue ==
    /\ result' = Result("generate_default_value",
                        Returned(generate_default_value(table.columns[1], length_ratio, text_fill_mode)))
    /\ UNCHANGED <<search, processor, source, table, length_ratio, text_fill_mode, data_frame, files>>

-----------------------------------------------------------------------------
(* Operations of TestDataGenerator and DDLConstruct *)

\* a generate_dataframe that sorts the table's own columns
table_sorted_in_place(magi_table) ==
    [magi_table EXCEPT !.columns = SortedByNo(@)]

\* The table after generate_dataframe: sorted() builds a new list and the
\* loop only reads the columns, so the table is as it was.
table_after_generate_dataframe(magi_table) == magi_table

GenerateDataframe ==
    /\ data_frame' = data_frame_after_generate(data_frame, table, length_ratio, text_fill_mode)
    /\ table' = table_after_generate_dataframe(table)
    /\ result' = IF generate_dataframe_error(table) # ""
                 THEN Result("generate_dataframe", Raised(generate_dataframe_error(table)))
                 ELSE [Result("generate_dataframe", Returned(<<>>)) EXCEPT
                          !.frame = data_frame']
    /\ UNCHANGED <<search, processor, source, length_ratio, text_fill_mode, files>>

\* a set_length_ratio that rebuilds the stored frame under the new ratio
SetLengthRatio_regenerating ==
    /\ \E ratio \in LengthRatio : length_ratio' = ratio
    /\ data_frame' = IF data_frame.exists /\ data_frame.labels = "define"
                     THEN generate_dataframe(table, length_ratio', text_fill_mode)
                     ELSE data_frame
    /\ result' = Result("set_length_ratio", Returned(<<>>))
    /\ UNCHANGED <<search, processor, source, table, text_fill_mode, files>>

SetLengthRatio ==
    /\ \E ratio \in LengthRatio : length_ratio' = ratio
    /\ result' = Result("set_length_ratio", Returned(<<>>))
    /\ UNCHANGED <<search, processor, source, table, text_fill_mode, data_frame, files>>

SetTextFillMode ==
    /\ \E mode \in TextFillMode : text_fill_mode' = mode
    /\ result' = Result("set_text_fill_mode", Returned(<<>>))
    /\ UNCHANGED <<search, processor, source, table, length_ratio, data_frame, files>>

SaveDataframeToCsv ==
    /\ \E file_path \in Paths :
        IF ~data_frame.exists
        THEN /\ result' = [Result("save_dataframe_to_csv", Raised("ValueError")) EXCEPT
                              !.path = file_path]
             /\ UNCHANGED files
        ELSE /\ result' = [Result("save_dataframe_to_csv", Returned(<<>>)) EXCEPT
                              !.path = file_path]
             /\ files' = [files EXCEPT ![file_path] = TRUE]
    /\ UNCHANGED <<search, processor, source, table, length_ratio, text_fill_mode, data_frame>>

LoadDataframeFromCsv ==
    /\ \E file_path \in Paths :
        IF ~files[file_path]
        THEN /\ result' = [Result("load_dataframe_from_csv", Raised("FileNotFoundError")) EXCEPT
                              !.path = file_path]
             /\ UNCHANGED data_frame
        ELSE /\ \E content \in CsvContents(table) : data_frame' = ReadCsv(content)
             /\ result' = [Result("load_dataframe_from_csv", Returned(<<>>)) EXCEPT
                              !.path = file_path, !.frame = data_frame']
    /\ UNCHANGED <<search, processor, source, table, length_ratio, text_fill_mode, files>>

\* output_csv is None or the empty string (no export) or a path
GenerateInsertFromDataframe ==
    /\ \E schema_name \in SchemaNames, rows_count \in 0..MaxRows, output_csv \in Paths \cup {""} :
        LET outcome == generate_insert_from_dataframe(data_frame, table.table_name,
                                                      schema_name, rows_count)
        IN  /\ result' = [Result("generate_insert_from_dataframe", outcome) EXCEPT
                              !.schema_name = schema_name, !.rows_count = rows_count,
                              !.path = output_csv]
            /\ files' = IF outcome.returned /\ output_csv # ""
                        THEN [files EXCEPT ![output_csv] = TRUE]
                        ELSE files
    /\ UNCHANGED <<search, processor, source, table, length_ratio, text_fill_mode, data_frame>>

GenerateBatchInsertFromDataframe ==
    /\ \E schema_name \in SchemaNames, rows_count \in 0..MaxRows, output_csv \in Paths \cup {""} :
        LET outcome == generate_batch_insert_from_dataframe(data_frame, table.table_name,
                                                            schema_name, rows_count)
        IN  /\ result' = [Result("generate_batch_insert_from_dataframe", outcome) EXCEPT
                              !.schema_name = schema_name, !.rows_count = rows_count,
                              !.path = output_csv]
            /\ files' = IF outcome.returned /\ output_csv # ""
                        THEN [files EXCEPT ![output_csv] = TRUE]
                        ELSE files
    /\ UNCHANGED <<search, processor, source, table, length_ratio, text_fill_mode, data_frame>>

CreateTable ==
    /\ \E database \in Databases :
        result' = [Result("create_table", create_table(table, database)) EXCEPT
                      !.database = database]
    /\ UNCHANGED <<search, processor, source, table, length_ratio, text_fill_mode, data_frame, files>>

\* _build_column_definition on the table's column, as create_table calls it
\* once the dialect is accepted
CallBuildColumnDefinition ==
    /\ \E database \in {d \in Databases : Lower(d) \in SUPPORTED_DATABASES} :
        result' = [Result("_build_column_definition",
                          Returned(_build_column_definition(table.columns[1], database)))
                      EXCEPT !.database = database]
    /\ UNCHANGED <<search, processor, source, table, length_ratio, text_fill_mode, data_frame, files>>

-----------------------------------------------------------------------------
(* A run of TableConstruct.magi_table_factory, read by read *)

\* magi_table_factory is called and enters read_define
MagiTableFactoryCall ==
    /\ source.pc = "idle"
    /\ table = NoTable
    /\ source' = [source EXCEPT !.pc = "read_define", !.calls = <<>>, !.object = NoObject]
    /\ result' = Result("magi_table_factory", [raised |-> "", returned |-> FALSE,
                                                text |-> <<>>, stmts |-> <<>>])
    /\ UNCHANGED <<search, processor, table, length_ratio, text_fill_mode, data_frame, files>>

\* the read that read_define makes next
NextRead ==
    IF source.pc = "read_define" /\ Len(source.calls) < Len(ReadDefineOrder)
    THEN ReadDefineOrder[Len(source.calls) + 1]
    ELSE ""

ReadDefineSchema ==
    /\ NextRead = "read_define_schema"
    /\ \E n \in SourceTableNames, c \in SourceComments, sch \in SourceSchemas :
        source' = [source EXCEPT !.table_name = n, !.table_comment = c,
                                 !.table_schema = sch,
                                 !.calls = Append(@, "read_define_schema")]
    /\ UNCHANGED <<search, processor, table, length_ratio, text_fill_mode, data_frame, files, result>>

ReadDefineColumns ==
    /\ NextRead = "read_define_columns"
    /\ \E rows \in SourceRows :
        source' = [source EXCEPT !.columns_view = ColumnsView(rows),
                                 !.calls = Append(@, "read_define_columns")]
    /\ UNCHANGED <<search, processor, table, length_ratio, text_fill_mode, data_frame, files, result>>

ReadDefineIndexes ==
    /\ NextRead = "read_define_indexes"
    /\ \E ix \in SourceIndexes :
        source' = [source EXCEPT !.indexes = ix,
                                 !.calls = Append(@, "read_define_indexes")]
    /\ UNCHANGED <<search, processor, table, length_ratio, text_fill_mode, data_frame, files, result>>

\* read_define has returned: the table is built and returned
MagiTableFactoryReturn ==
    /\ source.pc = "read_define"
    /\ Len(source.calls) = Len(ReadDefineOrder)
    /\ source' = [source EXCEPT !.pc = "idle", !.object = magi_table_factory(source)]
    /\ result' = [Result("magi_table_factory", Returned(<<>>)) EXCEPT !.again = result.again]
    /\ UNCHANGED <<search, processor, table, length_ratio, text_fill_mode, data_frame, files>>

\* the table a completed run returned is handed to the generators, once;
\* the generators take a table whose name is a string that is not empty
HandOver ==
    /\ source.pc = "idle"
    /\ source.object.built
    /\ TruthyStr(source.object.table_name)
    /\ table = NoTable
    /\ table' = MagiTable(source.object.table_name.val[1], source.object.table_comment,
                          source.object.table_schema, source.object.columns,
                          source.object.indexes)
    /\ UNCHANGED <<search, processor, source, length_ratio, text_fill_mode, data_frame, files, result>>

-----------------------------------------------------------------------------
(* Calls of the balanced search *)

InitBalanced ==
    /\ search \in {[NoSearch EXCEPT !.text = t, !.left = d[1], !.right = d[2], !.start = s] :
                      t \in SearchTexts, d \in DelimiterPairs, s \in 0..(MaxTextLen + 1)}
    /\ processor = BusinessProcessor
    /\ table = NoTable
    /\ source = TableConstruct
    /\ length_ratio = FULL
    /\ text_fill_mode = ONLY_N
    /\ data_frame = NoFrame
    /\ files = NoFiles
    /\ result = NoResult

CallFindBalanced ==
    /\ search.op # "find_balanced"
    /\ search' =
        IF find_balanced_error(search.left, search.right) # ""
        THEN [search EXCEPT !.op = "find_balanced",
                            !.raised = find_balanced_error(search.left, search.right),
                            !.found = NoneFound, !.results = <<>>]
        ELSE [search EXCEPT !.op = "find_balanced", !.raised = "",
                            !.found = find_balanced(search.text, search.left,
                                                    search.right, search.start),
                            !.results = <<>>]
    /\ UNCHANGED <<processor, source, table, length_ratio, text_fill_mode, data_frame, files, result>>

CallFindAllBalanced ==
    /\ search.op # "find_all_balanced"
    /\ search' =
        IF find_balanced_error(search.left, search.right) # ""
        THEN [search EXCEPT !.op = "find_all_balanced",
                            !.raised = find_balanced_error(search.left, search.right),
                            !.found = NoneFound, !.results = <<>>]
        ELSE [search EXCEPT !.op = "find_all_balanced", !.raised = "",
                            !.found = NoneFound,
                            !.results = find_all_balanced(search.text, search.left,
                                                          search.right, search.start)]
    /\ UNCHANGED <<processor, source, table, length_ratio, text_fill_mode, data_frame, files, result>>

-----------------------------------------------------------------------------
(* Calls and steps of the BusinessProcessor *)

\* a caller schedules start_processing and it runs to its first await
StartProcessing ==
    /\ \E f \in Flows :
        /\ processor.flows[f].pc = "none"
        /\ processor' = start_processing(processor, f)
    /\ UNCHANGED <<search, source, table, length_ratio, text_fill_mode, data_frame, files, result>>

\* the sleep a flow awaits is over, or its cancellation is delivered
Resume ==
    /\ \E f \in Flows :
        /\ processor.flows[f].pc # "none"
        /\ processor' = resume(processor, f)
    /\ UNCHANGED <<search, source, table, length_ratio, text_fill_mode, data_frame, files, result>>

StopProcessing ==
    /\ processor' = stop_processing(processor)
    /\ UNCHANGED <<search, source, table, length_ratio, text_fill_mode, data_frame, files, result>>

\* Worker.cancel on the worker of a suspended flow
CancelWorker ==
    /\ \E f \in Flows :
        /\ processor.flows[f].pc # "none"
        /\ ~processor.flows[f].cancelled
        /\ processor' = [processor EXCEPT !.flows[f].cancelled = TRUE,
                                          !.last = <<"cancel", f>>]
    /\ UNCHANGED <<search, source, table, length_ratio, text_fill_mode, data_frame, files, result>>

-----------------------------------------------------------------------------
(* Specifications *)

NextBalanced ==
    \/ CallFindBalanced
    \/ CallFindAllBalanced

SpecBalanced == InitBalanced /\ [][NextBalanced]_vars

NextProcessor ==
    \/ StartProcessing
    \/ Resume
    \/ StopProcessing
    \/ CancelWorker

SpecProcessor == InitFactory /\ [][NextProcessor]_vars


Next ==
    \/ GenerateDataframe
    \/ SetLengthRatio
    \/ SetTextFillMode
    \/ SaveDataframeToCsv
    \/ LoadDataframeFromCsv
    \/ GenerateInsertFromDataframe
    \/ GenerateBatchInsertFromDataframe
    \/ CreateTable

Spec == Init /\ [][Next]_vars

NextValue ==
    \/ CallCalculateActualLength
    \/ CallGenerateTextValue
    \/ CallGenerateNumberValue
    \/ CallGenerateDefaultValue
    \/ GenerateDataframe

SpecValue == InitValue /\ [][NextValue]_vars

NextDDL == CreateTable

NextColumn == CallBuildColumnDefinition

SpecColumn == InitColumn /\ [][NextColumn]_vars

\* the pipeline: a table is built by the factory, handed over, and consumed
\* by the two generators
NextPipeline ==
    \/ MagiTableFactoryCall
    \/ ReadDefineSchema
    \/ ReadDefineColumns
    \/ ReadDefineIndexes
    \/ MagiTableFactoryReturn
    \/ HandOver
    \/ (table # NoTable /\ CreateTable)
    \/ (table # NoTable /\ GenerateDataframe)
    \/ (table # NoTable /\ GenerateInsertFromDataframe)
    \/ (table # NoTable /\ GenerateBatchInsertFromDataframe)

SpecPipeline == InitFactory /\ [][NextPipeline]_vars

NextFactory ==
    \/ MagiTableFactoryCall
    \/ ReadDefineSchema
    \/ ReadDefineColumns
    \/ ReadDefineIndexes
    \/ MagiTableFactoryReturn

SpecFactory == InitFactory /\ [][NextFactory]_vars

SpecDDL == InitDDL /\ [][NextDDL]_vars

-----------------------------------------------------------------------------
(* Vocabulary of the properties *)

\* floor(L * r) for L >= 0: the k with k <= L * r < k + 1
FloorOfProduct(L, r) ==
    CHOOSE k \in 0..L : k * r.den <= L * r.num /\ L * r.num < (k + 1) * r.den

\* max(1, floor(L * r))
AtLeastOne(L, r) ==
    IF L <= 0 THEN 1
    ELSE IF FloorOfProduct(L, r) >= 1 THEN FloorOfProduct(L, r) ELSE 1

IsQuote(c) == c = SQ \/ c = DQ
NoQuote(text) == \A i \in 1..Len(text) : ~IsQuote(text[i])

\* text is body between two single quotes
Quoted(text, body) ==
    /\ Len(text) = Len(body) + 2
    /\ text[1] = SQ
    /\ text[Len(text)] = SQ
    /\ \A i \in 1..Len(body) : text[i + 1] = body[i]

TheColumn == table.columns[1]
TheComment == IF TheColumn.comment.has THEN TheColumn.comment.val ELSE <<>>
Sanitized == SelectSeq(TheComment, LAMBDA c : ~IsQuote(c))

CharFamily == {"varchar", "Char", "TEXT"}
NumericFamily == {"INTEGER", "number"}
TemporalFamily == {"DATE", "timestamp"}
BooleanFamily == {"BOOLEAN", "bool"}

-----------------------------------------------------------------------------
(* C1: for every table and every dialect identifier that names neither
   oracle nor postgres (identifiers are matched without regard to case),
   create_table raises an error and returns no text: nothing of the DDL text
   is built. *)
C1_UnsupportedDialectRaises ==
    (result.op = "create_table" /\ result.database \in {"mysql", "MySQL", ""})
        => /\ result.raised = "ValueError"
           /\ ~result.returned
           /\ result.text = <<>>

C1_Witness ==
    /\ result.op = "create_table"
    /\ result.database = "mysql"
    /\ result.raised = "ValueError"
    /\ Len(table.columns) = MaxCols
    /\ table.indexes # <<>>

(* C2 as stated: the text literal that generate_text_value returns for a
   character-family column contains no single-quote and no double-quote
   character. *)
C2_Original_NoQuoteInLiteral ==
    (result.op = "generate_text_value" /\ TheColumn.data_type \in CharFamily)
        => NoQuote(result.text)

(* C2, amended: the text literal that generate_text_value returns for a
   character-family column, and that generate_dataframe stores in
   generated_value for such a column when its default does not override it,
   is a body between two enclosing single quotes, and the body contains no
   single-quote and no double-quote character. *)
C2_NoQuoteInsideLiteral ==
    /\ (result.op = "generate_text_value" /\ TheColumn.data_type \in CharFamily)
        => /\ Len(result.text) >= 2
           /\ result.text[1] = SQ /\ result.text[Len(result.text)] = SQ
           /\ NoQuote(SubSeq(result.text, 2, Len(result.text) - 1))
    /\ \A i \in 1..Len(data_frame.rows) :
        (data_frame.rows[i].data_type \in CharFamily
         /\ data_frame.rows[i].default \in {NoneStr, SomeStr(<<"NULL">>), SomeStr(<<>>)})
            => LET text == data_frame.rows[i].generated_value.text
               IN  /\ Len(text) >= 2
                   /\ text[1] = SQ /\ text[Len(text)] = SQ
                   /\ NoQuote(SubSeq(text, 2, Len(text) - 1))

C2_Witness ==
    /\ result.op = "generate_text_value"
    /\ TheColumn.data_type \in CharFamily
    /\ text_fill_mode = COMMENT_PLUS_N
    /\ \E i \in 1..Len(TheComment) : TheComment[i] = SQ
    /\ \E i \in 1..Len(TheComment) : TheComment[i] = DQ
    /\ TruthyInt(TheColumn.length)

(* C3: for every declared length L > 0 and every ratio r,
   calculate_actual_length(L) = max(1, floor(L * r)); with r = full the
   result is L; and the result is never less than 1. *)
C3_ActualLength ==
    result.op = "calculate_actual_length"
        => /\ result.int >= 1
           /\ result.max_length > 0
                => /\ result.int = AtLeastOne(result.max_length, length_ratio)
                   /\ length_ratio = FULL => result.int = result.max_length

C3_Witness ==
    /\ result.op = "calculate_actual_length"
    /\ result.max_length = 2
    /\ length_ratio = ONE_THIRD
    /\ result.int = 1

\* the body C4 describes, for a declared length L: the sanitized comment cut
\* to the actual length, or followed by the filler up to the actual length
IsFilledBody(body, L) ==
    LET actual_length == AtLeastOne(L, length_ratio)
    IN  /\ Len(body) = actual_length
        /\ \A i \in 1..actual_length :
            body[i] = IF text_fill_mode = COMMENT_PLUS_N /\ i <= Len(Sanitized)
                      THEN Sanitized[i]
                      ELSE "N"

DeclaredTextLength == IF TheColumn.length.has THEN TheColumn.length.val ELSE 1

(* C4 as stated: for a character-family column the literal is the filler repeated actual_length times
   (filler-only), or the sanitized comment cut to actual_length or padded
   with the filler to actual_length (comment-plus-filler). *)
C4_Original_LiteralIsBody ==
    (result.op = "generate_text_value" /\ TheColumn.data_type \in CharFamily)
        => IsFilledBody(result.text, DeclaredTextLength)

(* C4, amended: for a character-family column the literal is, between two
   enclosing single quotes, the
   filler repeated actual_length times (filler-only), or the sanitized
   comment cut to actual_length or padded with the filler to actual_length
   (comment-plus-filler); the declared length is column.length, or 1 when
   absent. *)
C4_QuotedLiteralIsBody ==
    (result.op = "generate_text_value" /\ TheColumn.data_type \in CharFamily)
        => /\ Len(result.text) >= 2
           /\ Quoted(result.text, SubSeq(result.text, 2, Len(result.text) - 1))
           /\ IsFilledBody(SubSeq(result.text, 2, Len(result.text) - 1), DeclaredTextLength)

\* a comment longer than the actual length is cut
C4_Witness ==
    /\ result.op = "generate_text_value"
    /\ TheColumn.data_type = "varchar"
    /\ text_fill_mode = COMMENT_PLUS_N
    /\ Len(Sanitized) = 2
    /\ Len(result.text) = 3

(* C5 as stated: for a numeric-family column the numeric literal is '9' repeated actual_length times,
   actual_length computed from column.length, or from 9 when the column
   declares no length. *)
C5_Original_NinesOfDeclaredLength ==
    (result.op = "generate_number_value" /\ TheColumn.data_type \in NumericFamily)
        => result.text =
               Repeat("9", AtLeastOne(IF TheColumn.length.has THEN TheColumn.length.val ELSE 9,
                                      length_ratio))

(* C5, amended: for a numeric-family column the numeric literal is '9' repeated actual_length times,
   actual_length computed from column.length, or from 9 when the column
   declares no length or the length 0. *)
C5_NinesOfLengthOrFallback ==
    (result.op = "generate_number_value" /\ TheColumn.data_type \in NumericFamily)
        => /\ \A i \in 1..Len(result.text) : result.text[i] = "9"
           /\ Len(result.text) =
                  AtLeastOne(IF TheColumn.length.has /\ TheColumn.length.val # 0
                             THEN TheColumn.length.val ELSE 9,
                             length_ratio)

C5_Witness ==
    /\ result.op = "generate_number_value"
    /\ TheColumn.data_type = "INTEGER"
    /\ TheColumn.length = SomeInt(3)
    /\ length_ratio = ONE_THIRD
    /\ result.text = <<"9">>

(* C6: generate_default_value returns for every data_type tag; for a
   temporal type it returns the maximum-date constant and for a boolean type
   TRUE, under every configuration; for a type that is not character,
   numeric, temporal or boolean it returns NULL. *)
C6_DefaultValueByType ==
    result.op = "generate_default_value"
        => /\ result.returned
           /\ TheColumn.data_type \in TemporalFamily
                => result.text = <<"DATE ", SQ, "9999-12-31", SQ>>
           /\ TheColumn.data_type \in BooleanFamily => result.text = <<"TRUE">>
           /\ TheColumn.data_type \notin
                  (CharFamily \cup NumericFamily \cup TemporalFamily \cup BooleanFamily)
                => result.text = <<"NULL">>

C6_Witness ==
    /\ result.op = "generate_default_value"
    /\ TheColumn.data_type = "timestamp"
    /\ length_ratio = HALF
    /\ text_fill_mode = COMMENT_PLUS_N
    /\ result.text = <<"DATE ", SQ, "9999-12-31", SQ>>

\* the column of the table a row of the frame was made from
ColumnNamed(name) == CHOOSE c \in {table.columns[i] : i \in 1..Len(table.columns)} : <<c.name>> = name

Synthesized(column) == generate_default_value(column, length_ratio, text_fill_mode)

(* C7 as stated: a column whose declared default is present and is not the
   NULL sentinel gets that default verbatim as its generated literal; a
   column whose default is absent or the NULL sentinel gets the synthesized
   literal. *)
C7_Original_PresentDefaultVerbatim ==
    result.op = "generate_dataframe"
        => \A i \in 1..Len(result.frame.rows) :
            LET column == ColumnNamed(result.frame.rows[i].name.text)
                literal == result.frame.rows[i].generated_value.text
            IN  IF column.default.has /\ column.default.val # <<"NULL">>
                THEN literal = column.default.val
                ELSE literal = Synthesized(column)

(* C7, amended: a column whose declared default is present, is not empty and
   is not the NULL sentinel gets that default verbatim as its generated
   literal, whatever its type, the length ratio and the fill mode; a column
   whose default is absent, empty or the NULL sentinel gets the synthesized
   literal. *)
C7_NonEmptyDefaultVerbatim ==
    result.op = "generate_dataframe"
        => \A i \in 1..Len(result.frame.rows) :
            LET column == ColumnNamed(result.frame.rows[i].name.text)
                literal == result.frame.rows[i].generated_value.text
            IN  IF column.default \notin {NoneStr, SomeStr(<<>>), SomeStr(<<"NULL">>)}
                THEN literal = column.default.val
                ELSE literal = Synthesized(column)

C7_Witness ==
    /\ result.op = "generate_dataframe"
    /\ TheColumn.data_type = "INTEGER"
    /\ TheColumn.default = SomeStr(<<SQ, "A", SQ>>)
    /\ result.frame.rows[1].generated_value.text = <<SQ, "A", SQ>>

\* the ordinal generate_dataframe sorts a column by: an absent ordinal is 0
OrdinalKey(column) == IF column.no.has THEN column.no.val ELSE 0

\* a cell of an "int or None" column carries x: the same number, or missing
CarriesInt(cell, x) == cell.has = x.has /\ (x.has => cell.val = x.val)

(* C8: generate_dataframe returns exactly one row per column of the table,
   each row carrying that column's name, data_type, length, precision,
   primary_key, unique, not_null, default and comment and a generated
   literal, with the rows in ascending ordinal order (a column without
   ordinal counts as 0). *)
C8_OneRowPerColumnByOrdinal ==
    result.op = "generate_dataframe"
        => LET rows == result.frame.rows
               columns == {table.columns[i] : i \in 1..Len(table.columns)}
           IN  /\ result.returned
               /\ result.frame = data_frame
               /\ Len(rows) = Len(table.columns)
               /\ \A c \in columns :
                    Cardinality({i \in 1..Len(rows) : rows[i].name.text = <<c.name>>}) = 1
               /\ \A i \in 1..Len(rows) :
                    \E c \in columns :
                        /\ rows[i].name = [kind |-> "str", text |-> <<c.name>>]
                        /\ rows[i].data_type = c.data_type
                        /\ CarriesInt(rows[i].length, c.length)
                        /\ CarriesInt(rows[i].precision, c.precision)
                        /\ rows[i].primary_key = c.primary_key
                        /\ rows[i].unique = c.unique
                        /\ rows[i].not_null = c.not_null
                        /\ rows[i].default = c.default
                        /\ rows[i].comment = c.comment
                        /\ rows[i].generated_value.kind = "str"
                        /\ rows[i].generated_value.text # <<>>
               /\ \A i, j \in 1..Len(rows) :
                    i < j => OrdinalKey(ColumnNamed(rows[i].name.text))
                                 <= OrdinalKey(ColumnNamed(rows[j].name.text))

\* a table whose insertion order is not its ordinal order
C8_Witness ==
    /\ result.op = "generate_dataframe"
    /\ Len(table.columns) = 2
    /\ table.columns[1].no = SomeInt(2)
    /\ table.columns[2].no = SomeInt(1)
    /\ result.frame.rows[1].name.text = <<table.columns[2].name>>

InsertBuilders == {"generate_insert_from_dataframe", "generate_batch_insert_from_dataframe"}

(* C9: the generator starts without a tabular representation and gets one
   only from a completed generate_dataframe or load_dataframe_from_csv, and
   keeps it from then on; an INSERT builder called without one raises an
   error, returns no statement and writes no export file; called with one
   it does not raise that error. *)
C9_InsertNeedsFrame ==
    /\ ~data_frame.exists
    /\ [][/\ (~data_frame.exists /\ data_frame'.exists)
               => /\ result'.op \in {"generate_dataframe", "load_dataframe_from_csv"}
                  /\ result'.returned
          /\ data_frame.exists => data_frame'.exists
          /\ (result'.op \in {"generate_dataframe", "load_dataframe_from_csv"}
              /\ result'.returned /\ result' # result) => data_frame'.exists
          /\ (result'.op \in InsertBuilders /\ result' # result)
               => IF ~data_frame.exists
                  THEN /\ result'.raised = "ValueError"
                       /\ ~result'.returned
                       /\ result'.stmts = <<>> /\ result'.text = <<>>
                       /\ files' = files
                  ELSE result'.raised # "ValueError"]_vars

C9_Witness ==
    /\ result.op = "generate_batch_insert_from_dataframe"
    /\ result.raised = "ValueError"
    /\ result.path = "out.csv"
    /\ ~files["out.csv"]
    /\ ~data_frame.exists

\* the names, and the literals, of a frame's rows, separated by ", "
RECURSIVE CommaList(_)
CommaList(texts) ==
    IF texts = <<>> THEN <<>>
    ELSE IF Len(texts) = 1 THEN texts[1]
    ELSE texts[1] \o <<", ">> \o CommaList(Tail(texts))

RowNames == [i \in 1..Len(data_frame.rows) |-> data_frame.rows[i].name.text]
RowLiterals == [i \in 1..Len(data_frame.rows) |-> data_frame.rows[i].generated_value.text]

Qualified(schema_name, table_name) ==
    IF schema_name.has /\ schema_name.val # <<>>
    THEN schema_name.val \o <<".", table_name>>
    ELSE <<table_name>>

(* C10: a call of generate_insert_from_dataframe with row count n that
   returns, returns exactly n statements, all identical, each of the form
   INSERT INTO [schema.]table (cols) VALUES (literals); with the column
   names and the generated literals in the row order of the tabular
   representation; and the call returns whenever the tabular representation
   is the one generate_dataframe built. *)
C10_SingleRowInserts ==
    result.op = "generate_insert_from_dataframe"
        => /\ result.returned
                => /\ Len(result.stmts) = result.rows_count
                   /\ \A i \in 1..Len(result.stmts) :
                        result.stmts[i] =
                            <<"INSERT INTO ">>
                            \o Qualified(result.schema_name, table.table_name)
                            \o <<" (">> \o CommaList(RowNames) \o <<") VALUES (">>
                            \o CommaList(RowLiterals) \o <<");">>
           /\ data_frame \in {generate_dataframe(table, r, m) :
                                 r \in LengthRatio, m \in TextFillMode}
                => result.returned

C10_Witness ==
    /\ result.op = "generate_insert_from_dataframe"
    /\ result.returned
    /\ result.rows_count = 2
    /\ Len(result.stmts) = 2
    /\ Len(data_frame.rows) = 2
    /\ result.schema_name.has

\* n value tuples, each the comma list of the literals in parentheses,
\* separated by a comma and a line break
RECURSIVE ValueTuples(_)
ValueTuples(n) ==
    IF n = 0 THEN <<>>
    ELSE IF n = 1 THEN <<"(">> \o CommaList(RowLiterals) \o <<")">>
    ELSE ValueTuples(n - 1) \o <<",\n  ", "(">> \o CommaList(RowLiterals) \o <<")">>

\* the number of atoms of text that are the atom
CountAtom(text, atom) == Cardinality({i \in 1..Len(text) : text[i] = atom})

(* C11: a call of generate_batch_insert_from_dataframe with row count n that
   returns, returns one statement, INSERT INTO [schema.]table (cols)
   followed by a single VALUES clause of exactly n value tuples, every tuple
   the same list of the generated literals in row order, closed by one
   semicolon; and the call returns whenever the tabular representation is
   the one generate_dataframe built. *)
C11_BatchInsertTuples ==
    result.op = "generate_batch_insert_from_dataframe"
        => /\ result.returned
                => /\ result.stmts = <<>>
                   /\ result.text =
                        <<"INSERT INTO ">>
                        \o Qualified(result.schema_name, table.table_name)
                        \o <<" (">> \o CommaList(RowNames) \o <<") \n", "VALUES \n  ">>
                        \o ValueTuples(result.rows_count) \o <<";">>
                   /\ CountAtom(result.text, "VALUES \n  ") = 1
                   /\ CountAtom(result.text, "(") = result.rows_count
                   /\ CountAtom(result.text, ";") = 1
           /\ data_frame \in {generate_dataframe(table, r, m) :
                                 r \in LengthRatio, m \in TextFillMode}
                => result.returned

C11_Witness ==
    /\ result.op = "generate_batch_insert_from_dataframe"
    /\ result.returned
    /\ result.rows_count = 2
    /\ Len(data_frame.rows) = 2
    /\ CountAtom(result.text, "(") = 2

GenerationCalls ==
    {"create_table", "generate_dataframe",
     "generate_insert_from_dataframe", "generate_batch_insert_from_dataframe"}

\* what a call handed back: the error or the value, and the frame it built
Outcome(r) == <<r.raised, r.returned, r.text, r.stmts, r.frame>>

\* the arguments of a call
Arguments(r) == <<r.database, r.schema_name, r.rows_count, r.path>>

(* C12: when create_table, generate_dataframe or an INSERT builder is called
   twice in succession with the same arguments, the table and the
   configuration being the same at both calls (and, for a builder, the
   tabular representation), the second call returns, or raises, exactly what
   the first did; generate_dataframe leaves the same tabular representation
   behind both times. *)
C12_SuccessiveCallsAgree ==
    [][(/\ result'.op \in GenerationCalls
        /\ result'.again
        /\ Arguments(result') = Arguments(result)
        /\ table' = table
        /\ length_ratio' = length_ratio
        /\ text_fill_mode' = text_fill_mode)
            => /\ Outcome(result') = Outcome(result)
               /\ data_frame' = data_frame]_vars

\* a second generate_dataframe on a table of two columns
C12_Witness ==
    /\ result.op = "generate_dataframe"
    /\ result.again
    /\ Len(table.columns) = 2
    /\ result.frame = data_frame
    /\ Len(data_frame.rows) = 2

\* the table the last completed factory run returned
Product == source.object

(* C13: whenever table_name is unset or empty once the reads of a factory
   run have been made, magi_table_factory fails with an error and returns
   no table. *)
C13_FactoryRejectsMissingName ==
    (/\ result.op = "magi_table_factory"
     /\ source.pc = "idle"
     /\ source.table_name \in {NoneStr, SomeStr(<<>>)})
        => /\ result.raised # ""
           /\ ~result.returned
           /\ ~Product.built

(* C14: in every table magi_table_factory returns, whatever the source's
   column rows, the column names are pairwise different and the column at
   place i of the table carries the ordinal i, for i = 1..N. *)
C14_UniqueNamesContiguousOrdinals ==
    Product.built
        => LET columns == Product.columns
           IN  /\ \A i, j \in 1..Len(columns) :
                    i # j => columns[i].name # columns[j].name
               /\ \A i \in 1..Len(columns) : columns[i].no = SomeInt(i)

(* C15: the table magi_table_factory returns has one column for every row
   of the source's column rows, in row order, and a length, precision,
   default or comment that is absent in the row is None in the column. *)
C15_OneColumnPerRowAbsentStaysAbsent ==
    Product.built
        => LET rows == source.columns_view
               columns == Product.columns
           IN  /\ Len(columns) = Len(rows)
               /\ \A i \in 1..Len(rows) :
                    i <= Len(columns)
                        => /\ columns[i].name = rows[i].name
                           /\ ~rows[i].length.has => columns[i].length = NoneInt
                           /\ ~rows[i].precision.has => columns[i].precision = NoneInt
                           /\ ~rows[i].default.has => columns[i].default = NoneStr
                           /\ ~rows[i].comment.has => columns[i].comment = NoneStr

\* s is the beginning of t
IsPrefix(s, t) == Len(s) <= Len(t) /\ \A i \in 1..Len(s) : s[i] = t[i]

(* C16: a run of magi_table_factory calls read_define_schema, then
   read_define_columns, then read_define_indexes, each once and in that
   order: while the run is reading no table has been built and the reads
   made so far are the beginning of that sequence, and when the table is
   built and returned the reads made are exactly that sequence. *)
C16_ReadsInOrderBeforeBuild ==
    LET order == <<"read_define_schema", "read_define_columns", "read_define_indexes">>
    IN  /\ source.pc = "read_define"
            => /\ ~Product.built
               /\ ~result.returned
               /\ IsPrefix(source.calls, order)
        /\ Product.built => source.calls = order
        /\ (result.op = "magi_table_factory" /\ result.returned)
            => Product.built /\ source.pc = "idle"

C16_Witness ==
    /\ result.op = "magi_table_factory"
    /\ result.returned
    /\ Product.built
    /\ Len(Product.columns) = 2
    /\ Len(source.calls) = 3

\* the text create_table returned begins with the header and goes on with
\* the opening of the column list
BeginsWithHeader(text, header) ==
    IsPrefix(header \o <<" (\n    ">>, text)

(* C17: the text create_table returns begins with CREATE TABLE
   schema.table_name when the table's schema is set, and with CREATE TABLE
   table_name when it is not. *)
C17_HeaderQualifiedBySchema ==
    (result.op = "create_table" /\ result.returned)
        => IF table.table_schema.has /\ table.table_schema.val # <<>>
           THEN BeginsWithHeader(result.text,
                    <<"CREATE", " ", "TABLE", " ">>
                    \o table.table_schema.val \o <<".", table.table_name>>)
           ELSE BeginsWithHeader(result.text,
                    <<"CREATE", " ", "TABLE", " ", table.table_name>>)

\* the name and type of a clause, with the length suffix or without it
ClauseHeads ==
    {<<TheColumn.name, " ", TheColumn.data_type>>,
     <<TheColumn.name, " ", TheColumn.data_type, "(", ToString(TheColumn.length.val), ")">>}

(* C18: the clause _build_column_definition renders for a column is its
   name and its type, the type with a (length) suffix or without, followed
   in this order by PRIMARY KEY iff the column is a primary key, NOT NULL
   iff it is not-null, and DEFAULT with the literal iff the column declares
   a default (a default that is not None), each after one space; nothing
   else is in the clause. *)
C18_ColumnClauseForm ==
    result.op = "_build_column_definition"
        => /\ result.returned
           /\ \E head \in ClauseHeads :
                result.text =
                    head
                    \o (IF TheColumn.primary_key THEN <<" ", "PRIMARY KEY">> ELSE <<>>)
                    \o (IF TheColumn.not_null THEN <<" ", "NOT NULL">> ELSE <<>>)
                    \o (IF TheColumn.default # NoneStr
                        THEN <<" ", "DEFAULT ">> \o TheColumn.default.val ELSE <<>>)

C18_Witness ==
    /\ result.op = "_build_column_definition"
    /\ TheColumn.primary_key /\ TheColumn.not_null /\ TheColumn.unique
    /\ TheColumn.default = SomeStr(<<SQ, "A", SQ>>)
    /\ TheColumn.data_type = "VARCHAR"
    /\ TheColumn.length = SomeInt(MaxLength)
    /\ Len(result.text) = 15

\* the clause carries a (length) suffix after the type
HasLengthSuffix(text) ==
    /\ Len(text) >= 6
    /\ text[4] = "("
    /\ text[5] = ToString(TheColumn.length.val)
    /\ text[6] = ")"

ClauseCharFamily == {"VARCHAR", "varchar", "Char", "VARCHAR2", "NCHAR"}
ClauseOtherFamilies == {"INTEGER", "number", "DATE", "BOOLEAN"}

(* C19: the clause of a character-family column (VARCHAR, VARCHAR2, CHAR,
   NVARCHAR, NCHAR in any case) that declares a length carries the (length)
   suffix, and the clause of a numeric, date or boolean column carries none,
   whatever its declared length. *)
C19_LengthSuffixForCharFamily ==
    result.op = "_build_column_definition"
        => /\ (TheColumn.data_type \in ClauseCharFamily /\ TheColumn.length.has)
                => HasLengthSuffix(result.text)
           /\ TheColumn.data_type \in ClauseOtherFamilies
                => ~HasLengthSuffix(result.text) /\ CountAtom(result.text, "(") = 0

RECURSIVE Occurrences(_, _)
\* how many times pattern occurs in text as a run of atoms
Occurrences(text, pattern) ==
    IF Len(text) < Len(pattern) THEN 0
    ELSE (IF IsPrefix(pattern, text) THEN 1 ELSE 0) + Occurrences(Tail(text), pattern)

TableCommentStatement ==
    <<"COMMENT ON TABLE ", table.table_name, " IS ", SQ>>
    \o table.table_comment.val \o <<SQ>>

ColumnCommentStatement(column) ==
    <<"COMMENT ON COLUMN ", table.table_name, ".", column.name, " IS ", SQ>>
    \o column.comment.val \o <<SQ>>

\* the columns of the table that carry a comment that is not empty
Commented == {i \in 1..Len(table.columns) :
                table.columns[i].comment.has /\ table.columns[i].comment.val # <<>>}

(* C20 as stated: the text create_table returns holds a table comment
   statement iff the table's comment is set (is not None), and exactly one
   column comment statement for each column whose comment is not empty and
   none for the others. *)
C20_Original_TableCommentWhenSet ==
    (result.op = "create_table" /\ result.returned)
        => /\ CountAtom(result.text, "COMMENT ON TABLE ")
                = (IF table.table_comment.has THEN 1 ELSE 0)
           /\ CountAtom(result.text, "COMMENT ON COLUMN ") = Cardinality(Commented)
           /\ \A i \in Commented :
                Occurrences(result.text, ColumnCommentStatement(table.columns[i])) = 1

(* C20, amended: the text create_table returns holds a table comment
   statement (exactly one, carrying the comment) iff the table's comment is
   set and not empty, and exactly one column comment statement, carrying
   the comment, for each column whose comment is not empty and none for a
   column whose comment is absent or empty. *)
C20_CommentStatementsWhenNonEmpty ==
    (result.op = "create_table" /\ result.returned)
        => /\ CountAtom(result.text, "COMMENT ON TABLE ")
                = (IF table.table_comment.has /\ table.table_comment.val # <<>>
                   THEN 1 ELSE 0)
           /\ (table.table_comment.has /\ table.table_comment.val # <<>>)
                => Occurrences(result.text, TableCommentStatement) = 1
           /\ CountAtom(result.text, "COMMENT ON COLUMN ") = Cardinality(Commented)
           /\ \A i \in Commented :
                Occurrences(result.text, ColumnCommentStatement(table.columns[i])) = 1

\* a commented table with one commented column and one with an empty comment
C20_Witness ==
    /\ result.op = "create_table"
    /\ result.returned
    /\ table.table_comment = SomeStr(<<"c">>)
    /\ Len(table.columns) = 2
    /\ Cardinality(Commented) = 1
    /\ \E i \in 1..2 : table.columns[i].comment = SomeStr(<<>>)
    /\ CountAtom(result.text, "COMMENT ON COLUMN ") = 1

\* CREATE [UNIQUE] INDEX name ON table (col1, col2, ...) for an index
IndexStatement(index) ==
    <<"CREATE ", IF index.unique THEN "UNIQUE INDEX" ELSE "INDEX",
      " ", index.name, " ON ", table.table_name, " (">>
    \o CommaList([i \in 1..Len(index.columns) |-> <<index.columns[i]>>])
    \o <<")">>

(* C21: the text create_table returns holds exactly one index statement for
   each index of the table and no other index statement; the statement is
   CREATE [UNIQUE] INDEX name ON table (col1, col2, ...), UNIQUE present iff
   the index is unique, the columns in the index's declared order. *)
C21_OneStatementPerIndex ==
    (result.op = "create_table" /\ result.returned)
        => /\ CountAtom(result.text, "INDEX") + CountAtom(result.text, "UNIQUE INDEX")
                = Len(table.indexes)
           /\ \A i \in 1..Len(table.indexes) :
                Occurrences(result.text, IndexStatement(table.indexes[i])) = 1

\* a unique index and one that is not, over two columns
C21_Witness ==
    /\ result.op = "create_table"
    /\ result.returned
    /\ Len(table.indexes) = 2
    /\ table.indexes[1].unique /\ ~table.indexes[2].unique
    /\ Len(table.indexes[2].columns) = 2
    /\ CountAtom(result.text, "INDEX") = 1
    /\ CountAtom(result.text, "UNIQUE INDEX") = 1

\* the atoms a statement after the first begins with
LaterStatementStarts == {"COMMENT ON TABLE ", "COMMENT ON COLUMN ", "CREATE "}

(* C22: in the text create_table returns, for every table and every
   supported dialect, every statement after the first (the table comment,
   a column comment, an index statement) is preceded by the separator: a
   semicolon, then the line break. *)
C22_StatementsSeparated ==
    (result.op = "create_table" /\ result.returned)
        => \A i \in 1..Len(result.text) :
            result.text[i] \in LaterStatementStarts
                => i > 1 /\ result.text[i - 1] = ";\n"

RECURSIVE StatementsFrom(_, _)
\* the statements of a DDL text from atom i on, each as its kind and the
\* name it is about
StatementsFrom(text, i) ==
    IF i > Len(text) THEN <<>>
    ELSE (IF text[i] = "CREATE" THEN <<<<"create table", text[i + 4]>>>>
          ELSE IF text[i] = "COMMENT ON TABLE " THEN <<<<"table comment", text[i + 1]>>>>
          ELSE IF text[i] = "COMMENT ON COLUMN " THEN <<<<"column comment", text[i + 3]>>>>
          ELSE IF text[i] = "CREATE " THEN <<<<"index", text[i + 3]>>>>
          ELSE <<>>)
         \o StatementsFrom(text, i + 1)

\* the statements the table calls for, in the order C27 states
StatementsInOrder ==
    LET commented == SelectSeq(table.columns,
                               LAMBDA c : c.comment.has /\ c.comment.val # <<>>)
    IN  <<<<"create table", table.table_name>>>>
        \o (IF table.table_comment.has /\ table.table_comment.val # <<>>
            THEN <<<<"table comment", table.table_name>>>> ELSE <<>>)
        \o [i \in 1..Len(commented) |-> <<"column comment", commented[i].name>>]
        \o [i \in 1..Len(table.indexes) |-> <<"index", table.indexes[i].name>>]

(* C27: the statements of the text create_table returns are, in this order,
   the CREATE TABLE statement, the table comment if the table has one, the
   column comments in the table's column order, and the index statements in
   the order of the table's indexes. *)
C27_StatementOrder ==
    (result.op = "create_table" /\ result.returned)
        => StatementsFrom(result.text, 1) = StatementsInOrder

C27_Witness ==
    /\ result.op = "create_table"
    /\ result.returned
    /\ result.database = "Postgres"
    /\ table.table_comment = SomeStr(<<"c">>)
    /\ Len(table.indexes) = 2
    /\ Len(table.columns) = 2
    /\ Cardinality(Commented) = 2
    /\ Len(StatementsFrom(result.text, 1)) = 6

(* C23: no call of create_table, of generate_dataframe or of an INSERT
   builder, nor any other operation of the generator, changes the table:
   its name, schema, comment, columns (every field, the ordinals included)
   and indexes are after the call what they were before it, and so after
   any sequence of calls. *)
C23_TableReadOnly ==
    [][/\ table'.table_name = table.table_name
       /\ table'.table_schema = table.table_schema
       /\ table'.table_comment = table.table_comment
       /\ table'.columns = table.columns
       /\ table'.indexes = table.indexes]_vars

\* a builder has returned on the frame of a table whose columns are not in
\* ordinal order: the frame is sorted, the table is as it was
C23_Witness ==
    /\ result.op = "generate_insert_from_dataframe"
    /\ result.returned
    /\ Len(table.columns) = 2
    /\ table.columns[1].no = SomeInt(2)
    /\ table.columns[2].no = SomeInt(1)
    /\ Len(data_frame.rows) = 2
    /\ data_frame.rows[1].name.text = <<table.columns[2].name>>

Setters == {"set_length_ratio", "set_text_fill_mode"}

(* C29: a call of set_length_ratio or set_text_fill_mode changes the
   configuration value it names and nothing else, the stored tabular
   representation in particular; the statements an INSERT builder returns
   carry the literals stored in the tabular representation, whatever the
   configuration is at the time of the call; and generate_dataframe stores
   the literals of the configuration in force when it is called. *)
C29_SettersLeaveFrame ==
    [][/\ result'.op \in Setters
            => /\ data_frame' = data_frame
               /\ table' = table
               /\ files' = files
               /\ result'.op = "set_length_ratio" => text_fill_mode' = text_fill_mode
               /\ result'.op = "set_text_fill_mode" => length_ratio' = length_ratio
       /\ (result'.op = "generate_insert_from_dataframe" /\ result'.returned)
            => /\ data_frame' = data_frame
               /\ \A i \in 1..Len(result'.stmts) :
                    result'.stmts[i] =
                        <<"INSERT INTO ">>
                        \o Qualified(result'.schema_name, table.table_name)
                        \o <<" (">> \o CommaList(RowNames) \o <<") VALUES (">>
                        \o CommaList(RowLiterals) \o <<");">>
       /\ result'.op = "generate_dataframe"
            => data_frame' = generate_dataframe(table, length_ratio', text_fill_mode')]_vars

\* statements built after a setter call from a frame of the earlier
\* configuration
C29_Witness ==
    /\ result.op = "generate_insert_from_dataframe"
    /\ result.returned
    /\ result.rows_count >= 1
    /\ length_ratio = ONE_THIRD
    /\ data_frame = generate_dataframe(table, FULL, text_fill_mode)
    /\ data_frame # generate_dataframe(table, ONE_THIRD, text_fill_mode)

(* C24: a call of create_table, generate_dataframe or an INSERT builder
   that raises hands nothing back (no text, no statements, no frame) and
   leaves the stored tabular representation, the configuration, the table
   and the exported files as they were before the call. *)
C24_NoPartialOutput ==
    [][(result'.op \in GenerationCalls /\ result'.raised # "")
            => /\ ~result'.returned
               /\ result'.text = <<>>
               /\ result'.stmts = <<>>
               /\ result'.frame = NoFrame
               /\ data_frame' = data_frame
               /\ length_ratio' = length_ratio
               /\ text_fill_mode' = text_fill_mode
               /\ table' = table
               /\ files' = files]_vars

\* generate_dataframe has raised on a table of two columns, one of them
\* with a length that is not a number, and no frame is stored
C24_Witness ==
    /\ result.op = "generate_dataframe"
    /\ result.raised = "ValueError"
    /\ Len(table.columns) = 2
    /\ \E i \in 1..2 : table.columns[i].length = NaN
    /\ ~data_frame.exists

RECURSIVE ClauseNamesFrom(_, _)
\* the names that open the column clauses of a CREATE TABLE text, in order:
\* the atom after the opening parenthesis and after each clause separator
ClauseNamesFrom(text, i) ==
    IF i >= Len(text) THEN <<>>
    ELSE IF text[i] \in {" (\n    ", ",\n    "} /\ text[i + 1] # "\n)"
         THEN <<text[i + 1]>> \o ClauseNamesFrom(text, i + 1)
         ELSE ClauseNamesFrom(text, i + 1)

(* C30: for a table the factory returned, the column clauses of the text
   create_table returns name the columns in the order in which the stored
   tabular representation, and so the column list of the INSERT statements,
   names them. *)
C30_DDLOrderIsInsertOrder ==
    (result.op = "create_table" /\ result.returned /\ data_frame.exists)
        => ClauseNamesFrom(result.text, 1) =
               [i \in 1..Len(data_frame.rows) |-> data_frame.rows[i].name.text[1]]

\* the positions of the searched text where a left delimiter begins, and
\* those where a right delimiter begins and no left one does
Lefts ==
    {p \in 0..(Len(search.text) - 1) : StartsWith(search.text, search.left, p)}
Rights ==
    {p \in 0..(Len(search.text) - 1) :
        StartsWith(search.text, search.right, p) /\ p \notin Lefts}

\* the nesting depth at position j counted from the left delimiter at i
Depth(i, j) ==
    Cardinality({p \in Lefts : i <= p /\ p <= j})
    - Cardinality({p \in Rights : i <= p /\ p <= j})

\* the right delimiters at which the depth counted from i is 0
Closers(i) == {j \in Rights : j > i /\ Depth(i, j) = 0}

Least(S) == CHOOSE x \in S : \A y \in S : x <= y

\* the balanced region that opens at the left delimiter at i, if it closes
Region(i) ==
    Found(i, Least(Closers(i)),
          SubSeq(search.text, i + Len(search.left) + 1, Least(Closers(i))))

(* C25: a call of find_balanced with delimiters that are not empty returns
   None when no left delimiter begins at or after start, or when the depth
   counted from the first such delimiter never returns to 0; otherwise it
   returns the position of that first left delimiter, the position of the
   first right delimiter at which the depth is 0 again, and the text
   strictly between the two delimiters. *)
C25_FirstBalancedRegion ==
    (search.op = "find_balanced" /\ search.raised = "")
        => LET from_start == {p \in Lefts : p >= search.start}
           IN  IF from_start = {} THEN search.found = NoneFound
               ELSE IF Closers(Least(from_start)) = {} THEN search.found = NoneFound
               ELSE search.found = Region(Least(from_start))

\* a region found after the start of the text that holds a nested pair
C25_Witness ==
    /\ search.op = "find_balanced"
    /\ search.found.found
    /\ search.start >= 1
    /\ search.found.i_left >= 1
    /\ \E p \in Lefts : search.found.i_left < p /\ p < search.found.i_right

(* C26: find_all_balanced returns balanced regions only, in increasing
   position, each beginning at or after the end of the right delimiter of
   the one before it, and leaves out no balanced region that begins at or
   after the end of the last region it returns (at or after start when it
   returns none). *)
C26_AllBalancedRegions ==
    (search.op = "find_all_balanced" /\ search.raised = "")
        => LET results == search.results
               n == Len(results)
               after == IF n = 0 THEN search.start
                        ELSE results[n].i_right + Len(search.right)
           IN  /\ \A k \in 1..n :
                    /\ results[k].i_left \in Lefts
                    /\ Closers(results[k].i_left) # {}
                    /\ results[k] = Region(results[k].i_left)
               /\ \A k \in 1..(n - 1) :
                    results[k + 1].i_left >= results[k].i_right + Len(search.right)
               /\ ~\E i \in Lefts : i >= after /\ Closers(i) # {}

(* C28: no two start_processing flows are in stage 2 or stage 3 at the same
   time, that is, past the check of is_running that follows the first
   await. *)
C28_OneFlowInStages ==
    \A f, g \in Flows :
        (/\ processor.flows[f].pc \in {"task", "yield", "stage3"}
         /\ processor.flows[g].pc \in {"task", "yield", "stage3"})
            => f = g

=============================================================================
